---- MODULE Spec2Model ----
(***************************************************************************)
(* Study Schedule Planning Engine of editaliza (server.js and the routes   *)
(* of server_backup_before_simulados.js that server.js no longer carries). *)
(*                                                                         *)
(* Dates are day numbers: day d has getDay() = d % 7 with 0 = Sunday. The  *)
(* process clock is taken at or behind UTC (no positive offset), where a   *)
(* Date object at local midnight, its toISOString().split('T')[0] string   *)
(* and a session_date column all name the same day number.                 *)
(* examDate = exam_date + 'T23:59:59', so "date <= examDate" compares day  *)
(* numbers.                                                                *)
(*                                                                         *)
(* The store is the SQLite path of server.js (dbGet/dbAll/dbRun on the one *)
(* shared connection): one transaction state for the whole process.        *)
(***************************************************************************)
EXTENDS Integers, Sequences, FiniteSets, TLC

\* ---------------------------------------------------------------- bounds
Today == 29
ExamIn == 12
MaxOps == 2
MaxClock == 30000
MaxFaults == 1

\* ------------------------------------------------------- program constants
ReviewOffsets == <<7, 14, 28>>
GroupSize == 4
MaxSimulados == 20
SimuladoFrequency == 3
DirectedGap == 3
ReinforceDays == 3

NULL == 0

Pendente == "Pendente"
Concluido == "Concluido"

NovoTopico == "Novo Topico"
Redacao == "Redacao"
SimuladoDirecionado == "Simulado Direcionado"
SimuladoCompleto == "Simulado Completo"
ReforcoExtra == "Reforco Extra"

\* sessionType: `Revisão ${days}D`
RevisaoType(days) ==
    IF days = 7 THEN "Revisao 7D" ELSE IF days = 14 THEN "Revisao 14D" ELSE "Revisao 28D"

\* Date.prototype.getDay()
getDay(d) == d % 7

\* ------------------------------------------------- availability (generate)
\* variant: the quotient rounded up
MaxSessionsMut(hours, dayOfWeek, sessionDuration) ==
    (hours[dayOfWeek] * 60 + sessionDuration - 1) \div sessionDuration

\* maxSessions: Math.floor((study_hours_per_day[dayOfWeek] * 60) / sessionDuration)
MaxSessions(hours, dayOfWeek, sessionDuration) ==
    (hours[dayOfWeek] * 60) \div sessionDuration

\* the while loop of getAvailableDates from currentDate to endDate: one pass
\* per calendar day, pushing the days that are kept
DatesLoopMut(currentDate, endDate, weekdayOnly, hours, sessionDuration) ==
    LET Day(k) == currentDate + k - 1
        Kept(dateInfo) ==
            /\ ~(weekdayOnly /\ (dateInfo.dayOfWeek = 0 \/ dateInfo.dayOfWeek = 6))
            /\ hours[dateInfo.dayOfWeek] > 0
    IN  SelectSeq([k \in 1..(endDate + 1 - currentDate + 1) |->
                      [date |-> Day(k), dayOfWeek |-> getDay(Day(k)),
                       maxSessions |-> (hours[getDay(Day(k))] * 60) \div sessionDuration]],
                  Kept)

DatesLoop(currentDate, endDate, weekdayOnly, hours, sessionDuration) ==
    LET Day(k) == currentDate + k - 1
        Kept(dateInfo) ==
            /\ ~(weekdayOnly /\ (dateInfo.dayOfWeek = 0 \/ dateInfo.dayOfWeek = 6))
            /\ hours[dateInfo.dayOfWeek] > 0
    IN  SelectSeq([k \in 1..(endDate - currentDate + 1) |->
                      [date |-> Day(k), dayOfWeek |-> getDay(Day(k)),
                       maxSessions |-> MaxSessions(hours, getDay(Day(k)), sessionDuration)]],
                  Kept)

\* The planning run's context: the request settings, the exam date and today.
\* ctx = [hours, dur, examDate, today]
\* The planning run's working state: st = [agenda, cache].
\*   agenda: the provisional sessions in the order they were added;
\*   cache:  availableDatesCache, key <<startDate, weekdayOnly>> (endDate is
\*           examDate at every call site).
EmptyCache == [k \in {} |-> <<>>]

CacheKey(startDate, weekdayOnly) == <<startDate, weekdayOnly>>

\* getAvailableDates(startDate, examDate, weekdayOnly): the list returned
getAvailableDates(st, ctx, startDate, weekdayOnly) ==
    IF CacheKey(startDate, weekdayOnly) \in DOMAIN st.cache
    THEN st.cache[CacheKey(startDate, weekdayOnly)]
    ELSE DatesLoop(startDate, ctx.examDate, weekdayOnly, ctx.hours, ctx.dur)

\* getAvailableDates: availableDatesCache.set(cacheKey, dates)
Cached(st, ctx, startDate, weekdayOnly) ==
    IF CacheKey(startDate, weekdayOnly) \in DOMAIN st.cache THEN st
    ELSE [st EXCEPT !.cache =
            (CacheKey(startDate, weekdayOnly) :>
                DatesLoop(startDate, ctx.examDate, weekdayOnly, ctx.hours, ctx.dur)) @@ @]

\* ------------------------------------------------------ agenda accumulator
\* agenda.get(dateStr)?.length || 0
AgendaCount(agenda, d) ==
    Cardinality({i \in 1..Len(agenda) : agenda[i].date = d})

\* addSessionToAgenda(date, session)
addSessionToAgenda(st, date, session) ==
    [st EXCEPT !.agenda = Append(@,
        [date |-> date, topicId |-> session.topicId,
         subjectName |-> session.subjectName,
         topicDescription |-> session.topicDescription,
         sessionType |-> session.sessionType])]

\* index of the first entry of list, from i on, with spare capacity (0: none)
RECURSIVE FirstFree(_, _, _)
FirstFree(agenda, list, i) ==
    IF i > Len(list) THEN 0
    ELSE IF AgendaCount(agenda, list[i].date) < list[i].maxSessions THEN i
    ELSE FirstFree(agenda, list, i + 1)

\* findNextAvailableSlot(startDate, isWeekdayOnly): index into the cached list
findSlotIndex(st, ctx, startDate, isWeekdayOnly) ==
    FirstFree(st.agenda, getAvailableDates(st, ctx, startDate, isWeekdayOnly), 1)

\* findNextAvailableSlot(startDate, isWeekdayOnly): the date, NULL when none
findNextAvailableSlot(st, ctx, startDate, isWeekdayOnly) ==
    LET list == getAvailableDates(st, ctx, startDate, isWeekdayOnly)
        i == FirstFree(st.agenda, list, 1)
    IN  IF i = 0 THEN NULL ELSE list[i].date

IsSaturday(dateInfo) == dateInfo.dayOfWeek = 6
IsSunday(dateInfo) == dateInfo.dayOfWeek = 0

\* getNextSaturdayForReview(date)
getNextSaturdayForReviewMut(st, ctx, date) ==
    LET list == getAvailableDates(st, ctx, date, FALSE)
        i == FirstFree(st.agenda, list, 1)
    IN  IF i = 0 THEN NULL ELSE list[i].date

getNextSaturdayForReview(st, ctx, date) ==
    LET saturdayDates == SelectSeq(getAvailableDates(st, ctx, date, FALSE), IsSaturday)
        i == FirstFree(st.agenda, saturdayDates, 1)
    IN  IF i = 0 THEN NULL ELSE saturdayDates[i].date

\* ------------------------------------------------------------ essay phase
\* topicDescription of the essay sessions (line 667)
EssayText == "Pratica de redacao dissertativa-argumentativa"

RECURSIVE AddEssays(_, _, _)
AddEssays(st, sundayDates, i) ==
    IF i > Len(sundayDates) THEN st
    ELSE AddEssays(
            addSessionToAgenda(st, sundayDates[i].date,
                [topicId |-> NULL, subjectName |-> Redacao,
                 topicDescription |-> EssayText, sessionType |-> Redacao]),
            sundayDates, i + 1)

\* if (plan.has_essay) { ... getAvailableDates(today, examDate).filter(Sunday) ... }
EssayPhase(st, ctx, has_essay) ==
    IF has_essay
    THEN AddEssays(Cached(st, ctx, ctx.today, FALSE),
                   SelectSeq(getAvailableDates(st, ctx, ctx.today, FALSE), IsSunday), 1)
    ELSE st

\* ------------------------------------------------- spaced-repetition phase
\* variant: without the test against today
ReviewTargetOkMut(ctx, targetReviewDate, completedLoop) ==
    targetReviewDate <= ctx.examDate

\* one pass of [7, 14, 28].forEach for a topic anchored at baseDate;
\* completedLoop: the loop over completed topics also requires target >= today
ReviewTargetOk(ctx, targetReviewDate, completedLoop) ==
    /\ (completedLoop => targetReviewDate >= ctx.today)
    /\ targetReviewDate <= ctx.examDate

RECURSIVE ReviewCascade(_, _, _, _, _, _)
ReviewCascade(st, ctx, topic, baseDate, k, completedLoop) ==
    IF k > Len(ReviewOffsets) THEN st
    ELSE LET days == ReviewOffsets[k]
             targetReviewDate == baseDate + days
             reviewDay == getNextSaturdayForReview(st, ctx, targetReviewDate)
             st1 == Cached(st, ctx, targetReviewDate, FALSE)
             st2 == IF reviewDay # NULL
                    THEN addSessionToAgenda(st1, reviewDay,
                            [topicId |-> topic.id, subjectName |-> topic.subject_name,
                             topicDescription |-> topic.description,
                             sessionType |-> RevisaoType(days)])
                    ELSE st1
         IN  IF ReviewTargetOk(ctx, targetReviewDate, completedLoop)
             THEN ReviewCascade(st2, ctx, topic, baseDate, k + 1, completedLoop)
             ELSE ReviewCascade(st, ctx, topic, baseDate, k + 1, completedLoop)

\* for (const topic of completedTopics) { ... }
RECURSIVE CompletedReviews(_, _, _, _)
CompletedReviews(st, ctx, completedTopics, i) ==
    IF i > Len(completedTopics) THEN st
    ELSE CompletedReviews(
            ReviewCascade(st, ctx, completedTopics[i], completedTopics[i].completion_date, 1, TRUE),
            ctx, completedTopics, i + 1)

\* --------------------------------------------------- new-content phase
\* pendingTopics.flatMap(t => Array(t.priority).fill(t))
RECURSIVE Repeat(_, _)
Repeat(x, n) == IF n <= 0 THEN <<>> ELSE <<x>> \o Repeat(x, n - 1)

RECURSIVE WeightedTopics(_, _)
WeightedTopics(pendingTopics, i) ==
    IF i > Len(pendingTopics) THEN <<>>
    ELSE Repeat(pendingTopics[i], pendingTopics[i].priority) \o WeightedTopics(pendingTopics, i + 1)

Swap(list, a, b) == [list EXCEPT ![a] = list[b], ![b] = list[a]]

\* Fisher-Yates: for (i = length-1; i > 0; i--) swap(i, j) with j = rnd[i] in 0..i
\* (positions are 1-based here: position i+1 swaps with rnd[i]+1)
RECURSIVE FisherYates(_, _, _)
FisherYates(list, rnd, i) ==
    IF i <= 0 THEN list
    ELSE FisherYates(Swap(list, i + 1, rnd[i] + 1), rnd, i - 1)

\* the draws Math.floor(Math.random() * (i + 1)) of one shuffle of n items
Draws(n) == {rnd \in [1..(n - 1) -> 0..(n - 1)] : \A i \in 1..(n - 1) : rnd[i] <= i}

\* [...new Map(weightedTopics.map(item => [item.id, item])).values()]:
\* one entry per id, at the position of the id's first occurrence
RECURSIVE UniqueMut(_, _)
UniqueMut(list, i) ==
    IF i > Len(list) THEN <<>> ELSE <<list[i]>> \o UniqueMut(list, i + 1)

RECURSIVE Unique(_, _)
Unique(list, i) ==
    IF i > Len(list) THEN <<>>
    ELSE IF \E j \in 1..(i - 1) : list[j].id = list[i].id
         THEN Unique(list, i + 1)
         ELSE <<list[i]>> \o Unique(list, i + 1)

uniquePendingTopicsInOrder(pendingTopics, rnd) ==
    LET weightedTopics == WeightedTopics(pendingTopics, 1)
    IN  Unique(FisherYates(weightedTopics, rnd, Len(weightedTopics) - 1), 1)

\* variant: the cursor moves to the day after the chosen date
RECURSIVE NewTopicLoopNextDay(_, _, _, _, _, _)
NewTopicLoopNextDay(st, ctx, order, i, currentDateForNewTopics, lastNewTopicDate) ==
    IF i > Len(order) THEN [st |-> st, lastNewTopicDate |-> lastNewTopicDate]
    ELSE LET studyDay == findNextAvailableSlot(st, ctx, currentDateForNewTopics, TRUE)
             st1 == Cached(st, ctx, currentDateForNewTopics, TRUE)
             st2 == addSessionToAgenda(st1, studyDay,
                        [topicId |-> order[i].id, subjectName |-> order[i].subject_name,
                         topicDescription |-> order[i].description,
                         sessionType |-> NovoTopico])
             st3 == ReviewCascade(st2, ctx, order[i], studyDay, 1, FALSE)
         IN  IF studyDay = NULL
             THEN [st |-> st1, lastNewTopicDate |-> lastNewTopicDate]
             ELSE NewTopicLoopNextDay(st3, ctx, order, i + 1, studyDay + 1, studyDay)

\* variant: the slot search of the loop also takes Saturdays and Sundays
RECURSIVE NewTopicLoopMut(_, _, _, _, _, _)
NewTopicLoopMut(st, ctx, order, i, currentDateForNewTopics, lastNewTopicDate) ==
    IF i > Len(order) THEN [st |-> st, lastNewTopicDate |-> lastNewTopicDate]
    ELSE LET studyDay == findNextAvailableSlot(st, ctx, currentDateForNewTopics, FALSE)
             st1 == Cached(st, ctx, currentDateForNewTopics, FALSE)
             st2 == addSessionToAgenda(st1, studyDay,
                        [topicId |-> order[i].id, subjectName |-> order[i].subject_name,
                         topicDescription |-> order[i].description,
                         sessionType |-> NovoTopico])
             st3 == ReviewCascade(st2, ctx, order[i], studyDay, 1, FALSE)
         IN  IF studyDay = NULL
             THEN [st |-> st1, lastNewTopicDate |-> lastNewTopicDate]
             ELSE NewTopicLoopMut(st3, ctx, order, i + 1, studyDay, studyDay)

\* for (const topic of uniquePendingTopicsInOrder) { ... }
\* result: [st, lastNewTopicDate]
RECURSIVE NewTopicLoop(_, _, _, _, _, _)
NewTopicLoop(st, ctx, order, i, currentDateForNewTopics, lastNewTopicDate) ==
    IF i > Len(order) THEN [st |-> st, lastNewTopicDate |-> lastNewTopicDate]
    ELSE LET studyDay == findNextAvailableSlot(st, ctx, currentDateForNewTopics, TRUE)
             st1 == Cached(st, ctx, currentDateForNewTopics, TRUE)
             st2 == addSessionToAgenda(st1, studyDay,
                        [topicId |-> order[i].id, subjectName |-> order[i].subject_name,
                         topicDescription |-> order[i].description,
                         sessionType |-> NovoTopico])
             st3 == ReviewCascade(st2, ctx, order[i], studyDay, 1, FALSE)
         IN  IF studyDay = NULL
             THEN [st |-> st1, lastNewTopicDate |-> lastNewTopicDate]
             ELSE NewTopicLoop(st3, ctx, order, i + 1, studyDay, studyDay)

\* --------------------------------------------------- exam-simulation phase
\* subject names of allTopics in first-appearance order (Map insertion order)
RECURSIVE SubjectsOf(_, _)
SubjectsOf(allTopics, i) ==
    IF i > Len(allTopics) THEN <<>>
    ELSE IF \E j \in 1..(i - 1) : allTopics[j].subject_name = allTopics[i].subject_name
         THEN SubjectsOf(allTopics, i + 1)
         ELSE <<allTopics[i].subject_name>> \o SubjectsOf(allTopics, i + 1)

\* subjectData.completed.length
CompletedOf(allTopics, subjectName) ==
    Cardinality({i \in 1..Len(allTopics) :
        allTopics[i].subject_name = subjectName /\ allTopics[i].status = Concluido})

\* Array.prototype.sort((a, b) => b.completed.length - a.completed.length): stable
RECURSIVE InsertDesc(_, _, _)
InsertDesc(sorted, x, allTopics) ==
    IF sorted = <<>> THEN <<x>>
    ELSE IF CompletedOf(allTopics, Head(sorted)) >= CompletedOf(allTopics, x)
         THEN <<Head(sorted)>> \o InsertDesc(Tail(sorted), x, allTopics)
         ELSE <<x>> \o sorted

RECURSIVE SortDesc(_, _, _)
SortDesc(list, i, allTopics) ==
    IF i > Len(list) THEN <<>>
    ELSE IF i = Len(list) THEN <<list[i]>>
    ELSE InsertDesc(SortDesc(list, i + 1, allTopics), list[i], allTopics)

subjectsReadyForSim(allTopics) ==
    LET Ready(subjectName) == CompletedOf(allTopics, subjectName) >= 2
    IN  SortDesc(SelectSeq(SubjectsOf(allTopics, 1), Ready), 1, allTopics)

\* topicGroups.length: groups of 4 completed-topic descriptions
TopicGroups(n) == (n + GroupSize - 1) \div GroupSize

\* subjectData.completed: the descriptions of the subject's completed topics
CompletedDescriptions(allTopics, subjectName) ==
    LET Done(topic) == topic.subject_name = subjectName /\ topic.status = Concluido
        rows == SelectSeq(allTopics, Done)
    IN  [i \in 1..Len(rows) |-> rows[i].description]

\* completedTopics.slice(i, i + 4) for the group with index groupIndex
topicGroup(completed, groupIndex) ==
    SubSeq(completed, groupIndex * GroupSize + 1,
           IF (groupIndex + 1) * GroupSize <= Len(completed)
           THEN (groupIndex + 1) * GroupSize ELSE Len(completed))

\* topicGroup.map(topic => `• ${topic}`).join('\n')
RECURSIVE topicList(_, _)
topicList(group, i) ==
    IF i > Len(group) THEN ""
    ELSE "* " \o group[i] \o (IF i < Len(group) THEN "/" ELSE "") \o topicList(group, i + 1)

\* simuladoDescription of a directed mock (lines 803-805)
simuladoDescription(subjectName, completed, groupIndex) ==
    "Simulado direcionado focado em " \o subjectName
        \o (IF TopicGroups(Len(completed)) > 1
            THEN " - Bloco " \o ToString(groupIndex + 1) ELSE "")
        \o ": " \o topicList(topicGroup(completed, groupIndex), 1)

\* for (groupIndex ...) { findNextAvailableSlot(currentDirectedSimDate, false) ... }
\* result: [st, date] with date the currentDirectedSimDate after the loop
RECURSIVE GroupLoop(_, _, _, _, _, _)
GroupLoop(st, ctx, subjectName, groupIndex, completed, currentDirectedSimDate) ==
    IF groupIndex >= TopicGroups(Len(completed))
    THEN [st |-> st, date |-> currentDirectedSimDate]
    ELSE LET nextSimulatedDay == findNextAvailableSlot(st, ctx, currentDirectedSimDate, FALSE)
             st1 == Cached(st, ctx, currentDirectedSimDate, FALSE)
             st2 == addSessionToAgenda(st1, nextSimulatedDay,
                        [topicId |-> NULL,
                         subjectName |-> "Simulado Direcionado - " \o subjectName,
                         topicDescription |-> simuladoDescription(subjectName, completed,
                                                                  groupIndex),
                         sessionType |-> SimuladoDirecionado])
         IN  IF nextSimulatedDay = NULL
             THEN [st |-> st1, date |-> currentDirectedSimDate]
             ELSE GroupLoop(st2, ctx, subjectName, groupIndex + 1, completed,
                            nextSimulatedDay + DirectedGap)

\* for (const [subjectName, subjectData] of subjectsReadyForSim) { ... }
RECURSIVE DirectedPhase(_, _, _, _, _, _)
DirectedPhase(st, ctx, allTopics, ready, i, currentDirectedSimDate) ==
    IF i > Len(ready) THEN st
    ELSE LET r == GroupLoop(st, ctx, ready[i], 0,
                            CompletedDescriptions(allTopics, ready[i]),
                            currentDirectedSimDate)
         IN  DirectedPhase(r.st, ctx, allTopics, ready, i + 1, r.date)

\* the basic full mock, 7 days after maintenanceStartDate
BasicDelay == 7

\* its topicDescription (line 829)
BasicText == "Simulado geral abrangendo todas as disciplinas do concurso"

BasicPhase(st, ctx, maintenanceStartDate) ==
    LET basicCompleteSimDate == maintenanceStartDate + BasicDelay
        basicCompleteSlot == findNextAvailableSlot(st, ctx, basicCompleteSimDate, FALSE)
        st1 == Cached(st, ctx, basicCompleteSimDate, FALSE)
    IN  IF basicCompleteSlot # NULL
        THEN addSessionToAgenda(st1, basicCompleteSlot,
                [topicId |-> NULL, subjectName |-> SimuladoCompleto,
                 topicDescription |-> BasicText, sessionType |-> SimuladoCompleto])
        ELSE st1

\* simuladoDescription of the recurring full mocks (line 849)
RecurringText == "Simulado completo cobrindo todos os topicos do edital"

\* variant: the loop only stops when a search finds no slot
RECURSIVE RecurringLoopMut(_, _, _, _)
RecurringLoopMut(st, ctx, nextMaintenanceDay, simuladoCount) ==
    LET key == CacheKey(nextMaintenanceDay, FALSE)
        i == findSlotIndex(st, ctx, nextMaintenanceDay, FALSE)
        st1 == Cached(st, ctx, nextMaintenanceDay, FALSE)
        found == st1.cache[key][i].date
        st2 == addSessionToAgenda(st1, found,
                   [topicId |-> NULL, subjectName |-> SimuladoCompleto,
                    topicDescription |-> RecurringText,
                    sessionType |-> SimuladoCompleto])
        st3 == [st2 EXCEPT !.cache[key][i].date = found + SimuladoFrequency]
    IN  IF i = 0 THEN st1
        ELSE RecurringLoopMut(st3, ctx, found + SimuladoFrequency, simuladoCount + 1)

\* while (simuladoCount < maxSimulados) { ... }: findNextAvailableSlot returns
\* the Date object of the cached entry, and setDate(+3) then moves that object
RECURSIVE RecurringLoop(_, _, _, _)
RecurringLoop(st, ctx, nextMaintenanceDay, simuladoCount) ==
    IF simuladoCount >= MaxSimulados THEN st
    ELSE LET key == CacheKey(nextMaintenanceDay, FALSE)
             i == findSlotIndex(st, ctx, nextMaintenanceDay, FALSE)
             st1 == Cached(st, ctx, nextMaintenanceDay, FALSE)
             found == st1.cache[key][i].date
             st2 == addSessionToAgenda(st1, found,
                        [topicId |-> NULL, subjectName |-> SimuladoCompleto,
                         topicDescription |-> RecurringText,
                         sessionType |-> SimuladoCompleto])
             st3 == [st2 EXCEPT !.cache[key][i].date = found + SimuladoFrequency]
         IN  IF i = 0 THEN st1
             ELSE RecurringLoop(st3, ctx, found + SimuladoFrequency, simuladoCount + 1)

RecurringDelay == 5
RecurringPhase(st, ctx, maintenanceStartDate) ==
    RecurringLoop(st, ctx, maintenanceStartDate + RecurringDelay, 0)

\* progressPercentage >= 0.95, progressPercentage = completedTopics.length / allTopics.length
ProgressGate(completedTopics, allTopics) ==
    Len(completedTopics) * 100 >= 95 * Len(allTopics)

\* variant: the three phases run whatever the number of pending topics
SimulationPhasesMut(st, ctx, allTopics, completedTopics, pendingTopics, lastNewTopicDate) ==
    LET maintenanceStartDate ==
            (IF lastNewTopicDate # NULL THEN lastNewTopicDate ELSE ctx.today) + 1
        st1 == DirectedPhase(st, ctx, allTopics, subjectsReadyForSim(allTopics), 1,
                             maintenanceStartDate)
        st2 == BasicPhase(st1, ctx, maintenanceStartDate)
    IN  RecurringPhase(st2, ctx, maintenanceStartDate)

\* lines 747-862: maintenance start and the three gated phases
SimulationPhases(st, ctx, allTopics, completedTopics, pendingTopics, lastNewTopicDate) ==
    LET maintenanceStartDate ==
            (IF lastNewTopicDate # NULL THEN lastNewTopicDate ELSE ctx.today) + 1
        gate == Len(pendingTopics) = 0 /\ ProgressGate(completedTopics, allTopics)
        st1 == IF gate
               THEN DirectedPhase(st, ctx, allTopics, subjectsReadyForSim(allTopics), 1,
                                  maintenanceStartDate)
               ELSE st
        st2 == IF gate THEN BasicPhase(st1, ctx, maintenanceStartDate) ELSE st1
        st3 == IF gate THEN RecurringPhase(st2, ctx, maintenanceStartDate) ELSE st2
    IN  IF Len(pendingTopics) > 0 THEN st ELSE st3

\* ------------------------------------------------- the whole planning run
IsPending(t) == t.status # Concluido

\* lines 621-862: the agenda and cache built from the rows read
\* order: uniquePendingTopicsInOrder, as the shuffle of this run left it
PlanRun(ctx, has_essay, allTopics, completedTopics, order) ==
    LET st0 == [agenda |-> <<>>, cache |-> EmptyCache]
        st1 == EssayPhase(st0, ctx, has_essay)
        st2 == CompletedReviews(st1, ctx, completedTopics, 1)
        pendingTopics == SelectSeq(allTopics, IsPending)
        nt == NewTopicLoop(st2, ctx, order, 1, ctx.today, NULL)
    IN  SimulationPhases(nt.st, ctx, allTopics, completedTopics, pendingTopics,
                         nt.lastNewTopicDate)

\* Array.from(agenda.values()).flat(): grouped by date in the order in which
\* the dates first entered the agenda, add order within a date
RECURSIVE AgendaKeys(_, _)
AgendaKeys(agenda, i) ==
    IF i > Len(agenda) THEN <<>>
    ELSE IF \E j \in 1..(i - 1) : agenda[j].date = agenda[i].date
         THEN AgendaKeys(agenda, i + 1)
         ELSE <<agenda[i].date>> \o AgendaKeys(agenda, i + 1)

RECURSIVE FlatByKey(_, _, _)
FlatByKey(agenda, keys, i) ==
    IF i > Len(keys) THEN <<>>
    ELSE LET OnDate(s) == s.date = keys[i]
         IN  SelectSeq(agenda, OnDate) \o FlatByKey(agenda, keys, i + 1)

sessionsToCreate(agenda) == FlatByKey(agenda, AgendaKeys(agenda, 1), 1)

\* ================================================================ the store
VARIABLES db, snapshot, inTxn, req, uncaught, ops, faults, timers, clock, ran

vars == <<db, snapshot, inTxn, req, uncaught, ops, faults, timers, clock, ran>>

\* timers: TimerSystem.timers of the page (unnamed/part_002, line 7),
\*         session id -> [startTime, elapsed, isRunning], in milliseconds
\* clock:  Date.now() in the browser, in milliseconds
\* ran:    per session, the milliseconds its timer has really been running: over
\*         all finished runs, over the runs whose stop was sent to the server,
\*         and the instant the current run began
TimerSessions == {1}

NoTimers == <<>>

NotRun == [all |-> 0, reported |-> 0, since |-> 0]

\* db = [plans, topics, sessions, lastId]
\*   plans:    plan id -> row of study_plans
\*   topics:   rows of topics JOIN subjects
\*   sessions: rows of study_sessions
\* snapshot: the store as of the open transaction's BEGIN (what ROLLBACK restores)
\* inTxn:    the shared connection has an open transaction
\* uncaught: an error escaped every handler (unhandled rejection, 'error' event
\*           without listener) and the process has not yet exited

Reqs == {1, 2}

\* weekday -> hours maps supplied with requests or stored with plans
HZero == [d \in 0..6 |-> 0]
HAll == [d \in 0..6 |-> 1]
HMon2 == [d \in 0..6 |-> IF d = 1 \/ d = 6 THEN 2 ELSE IF d = 0 THEN 1 ELSE 0]

Settings == {[hours |-> HZero, dur |-> 60], [hours |-> HAll, dur |-> 60],
             [hours |-> HMon2, dur |-> 60], [hours |-> HMon2, dur |-> 90]}

\* topics.description of the topic with the given id
TopicNames == <<"T1", "T2", "T3", "T4", "T5">>

\* rows of subjects: A and B belong to plan 1, C to plan 2 (it has no topic)
Subject(id, plan, name, weight) ==
    [id |-> id, study_plan_id |-> plan, subject_name |-> name, priority_weight |-> weight]

InitSubjects == {Subject(1, 1, "A", 1), Subject(2, 1, "B", 2), Subject(3, 2, "C", 1)}

SubjectId(name) == (CHOOSE s \in InitSubjects : s.subject_name = name).id

Topic(id, plan, subject, priority, status, completion) ==
    [id |-> id, study_plan_id |-> plan, subject_id |-> SubjectId(subject),
     subject_name |-> subject,
     description |-> TopicNames[id], priority |-> priority,
     status |-> status, completion_date |-> completion]

\* topic sets of plan 1 (plan 2 has no topics)
TopicProfiles ==
    { {Topic(1, 1, "A", 1, Pendente, NULL), Topic(2, 1, "A", 1, Pendente, NULL),
       Topic(3, 1, "B", 2, Pendente, NULL)},
      {Topic(1, 1, "A", 1, Concluido, Today - 2), Topic(2, 1, "A", 1, Pendente, NULL),
       Topic(3, 1, "B", 2, Concluido, NULL)},
      {Topic(1, 1, "A", 1, Concluido, Today - 21), Topic(2, 1, "A", 1, Concluido, Today - 2),
       Topic(3, 1, "B", 2, Concluido, Today - 2)},
      {Topic(1, 1, "A", 1, Concluido, Today - 21), Topic(2, 1, "A", 1, Concluido, Today - 2)},
      {Topic(1, 1, "A", 1, Concluido, Today - 21), Topic(2, 1, "A", 1, Concluido, Today - 2),
       Topic(3, 1, "B", 2, Concluido, NULL)},
      {Topic(1, 1, "A", 1, Concluido, Today - 21), Topic(2, 1, "A", 1, Concluido, Today - 21),
       Topic(3, 1, "A", 1, Concluido, Today - 21), Topic(4, 1, "A", 1, Concluido, Today - 21),
       Topic(5, 1, "A", 1, Concluido, Today - 21)} }

PlanRow(id, user, essay) ==
    [id |-> id, user_id |-> user, exam_date |-> Today + ExamIn,
     study_hours_per_day |-> HAll, session_duration_minutes |-> 60,
     has_essay |-> essay, review_mode |-> "completo", postponement_count |-> 0]

Session(id, plan, topic, subject, description, date, type, status) ==
    [id |-> id, study_plan_id |-> plan, topic_id |-> topic, subject_name |-> subject,
     topic_description |-> description,
     session_date |-> date, session_type |-> type, status |-> status,
     notes |-> NULL, questions_solved |-> NULL, time_studied_seconds |-> NULL]

InitSessions ==
    { Session(1, 1, 1, "A", "T1", Today - 1, NovoTopico, Pendente),
      Session(2, 1, 1, "A", "T1", Today + 3, "Revisao 7D", Pendente),
      Session(3, 2, NULL, Redacao, EssayText, Today - 1, Redacao, Pendente),
      Session(4, 2, NULL, SimuladoCompleto, RecurringText, Today - 9, SimuladoCompleto, Pendente),
      Session(5, 2, NULL, SimuladoCompleto, RecurringText, Today - 9, SimuladoCompleto, Pendente),
      Session(6, 2, NULL, SimuladoCompleto, RecurringText, Today - 2, SimuladoCompleto, Pendente),
      Session(7, 2, NULL, SimuladoCompleto, RecurringText, Today - 2, SimuladoCompleto, Pendente),
      Session(8, 2, NULL, SimuladoCompleto, RecurringText, Today - 7, SimuladoCompleto, Pendente),
      Session(9, 2, NULL, SimuladoCompleto, RecurringText, Today - 7, SimuladoCompleto, Pendente) }

\* plan 2: study on Mondays, Saturdays and Sundays, exam sooner than plan 1's
Plan2Row ==
    [PlanRow(2, 2, FALSE) EXCEPT !.study_hours_per_day = HMon2,
                                 !.exam_date = Today + ExamIn - 5]

\* the request slot before a request arrives
Idle ==
    [kind |-> "none", pc |-> "idle", user |-> 0, planId |-> 0, sessionId |-> 0,
     topicId |-> 0, topic |-> <<>>,
     hours |-> HZero, dur |-> 0, has_essay |-> FALSE, next |-> FALSE, days |-> 0, plan |-> <<>>, session |-> <<>>,
     allTopics |-> <<>>, agenda |-> <<>>, cache |-> EmptyCache, today |-> 0,
     overdue |-> <<>>, idx |-> 0, cursor |-> 0, newDate |-> 0, moved |-> 0,
     counts |-> <<>>, fullPreview |-> <<>>, replanPreview |-> <<>>, totalToReplan |-> 0,
     count |-> 0, hasOverdue |-> FALSE, prior |-> <<>>, previewed |-> <<>>,
     fields |-> {}, status |-> "", notes |-> 0, questions_solved |-> 0,
     sessions |-> <<>>, seconds |-> 0, changes |-> 0,
     resp |-> "none", pre |-> <<>>, faulted |-> FALSE, committed |-> FALSE]

Init ==
    /\ \E tp \in TopicProfiles, essay \in BOOLEAN :
          db = [plans |-> [p \in {1, 2} |-> IF p = 1 THEN PlanRow(1, 1, essay) ELSE Plan2Row],
                topics |-> tp, subjects |-> InitSubjects, sessions |-> InitSessions,
                lastId |-> 9]
    /\ snapshot = db
    /\ inTxn = FALSE
    /\ req = [r \in Reqs |-> Idle]
    /\ uncaught = FALSE
    /\ ops = 0
    /\ faults = 0
    /\ timers = NoTimers
    /\ clock = 0
    /\ ran = [s \in TimerSessions |-> NotRun]

\* ------------------------------------------------------------ SQL helpers
\* a comparison with SQL NULL is never true
SqlEq(a, b) == a # NULL /\ b # NULL /\ a = b

\* the i-th bound parameter; a placeholder without a parameter stays NULL
Bind(params, i) == IF i <= Len(params) THEN params[i] ELSE NULL

\* BEGIN [IMMEDIATE] TRANSACTION on the shared connection fails inside a transaction
CanBegin == ~inTxn

\* SELECT * FROM study_plans WHERE id = ?
SelectPlan(d, planId) ==
    IF planId \in DOMAIN d.plans THEN <<d.plans[planId]>> ELSE <<>>

\* SELECT * FROM study_plans WHERE id = ? AND user_id = ?
SelectOwnPlan(d, planId, userId) ==
    IF planId \in DOMAIN d.plans /\ d.plans[planId].user_id = userId
    THEN <<d.plans[planId]>> ELSE <<>>

\* UPDATE study_plans SET daily_question_goal = ?, weekly_question_goal = ?,
\*   review_mode = ?, session_duration_minutes = ?, study_hours_per_day = ?,
\*   has_essay = ? WHERE id = ? AND user_id = ?     (8 placeholders)
\* params: the array passed at line 589 (7 values), bound by position
UpdateSettings(d, params) ==
    [d EXCEPT !.plans = [p \in DOMAIN d.plans |->
        IF SqlEq(d.plans[p].id, Bind(params, 7)) /\ SqlEq(d.plans[p].user_id, Bind(params, 8))
        THEN [d.plans[p] EXCEPT !.review_mode = Bind(params, 3),
                                !.session_duration_minutes = Bind(params, 4),
                                !.study_hours_per_day = Bind(params, 5),
                                !.has_essay = Bind(params, 6)]
        ELSE d.plans[p]]]

\* variant: AND status = 'Pendente'
DeleteSessionsMut(d, planId) ==
    [d EXCEPT !.sessions = {s \in @ : s.study_plan_id # planId \/ s.status # Pendente}]

\* DELETE FROM study_sessions WHERE study_plan_id = ?
DeleteSessions(d, planId) ==
    [d EXCEPT !.sessions = {s \in @ : s.study_plan_id # planId}]

\* allTopicsQuery: ORDER BY s.priority_weight DESC, t.id ASC
AllTopicsLess(a, b) ==
    a.priority > b.priority \/ (a.priority = b.priority /\ a.id < b.id)

RECURSIVE SortAllTopics(_)
SortAllTopics(rows) ==
    IF rows = {} THEN <<>>
    ELSE LET first == CHOOSE x \in rows : \A y \in rows \ {x} : AllTopicsLess(x, y)
         IN  <<first>> \o SortAllTopics(rows \ {first})

SelectAllTopics(d, planId) ==
    SortAllTopics({t \in d.topics : /\ t.study_plan_id = planId
                                    /\ \E s \in d.subjects : s.id = t.subject_id})

\* completedTopicsQuery: ORDER BY t.completion_date DESC (equal dates in id order)
CompletedLess(a, b) ==
    a.completion_date > b.completion_date
      \/ (a.completion_date = b.completion_date /\ a.id < b.id)

RECURSIVE SortCompleted(_)
SortCompleted(rows) ==
    IF rows = {} THEN <<>>
    ELSE LET first == CHOOSE x \in rows : \A y \in rows \ {x} : CompletedLess(x, y)
         IN  <<first>> \o SortCompleted(rows \ {first})

SelectCompletedTopics(d, planId) ==
    SortCompleted({t \in d.topics : /\ t.study_plan_id = planId
                               /\ \E s \in d.subjects : s.id = t.subject_id
                               /\ t.status = Concluido
                               /\ t.completion_date # NULL})

\* stmt.run(planId, topicId, subjectName, ..., 'Pendente') for rows[i..]; the
\* run at position skip (0: none) fails and stores nothing
RECURSIVE InsertRows(_, _, _, _, _)
InsertRows(d, planId, rows, i, skip) ==
    IF i > Len(rows) THEN d
    ELSE IF i = skip THEN InsertRows(d, planId, rows, i + 1, skip)
    ELSE InsertRows(
            [d EXCEPT !.sessions = @ \cup
                        {Session(d.lastId + 1, planId, rows[i].topicId, rows[i].subjectName,
                                 rows[i].topicDescription, rows[i].date,
                                 rows[i].sessionType, Pendente)},
                      !.lastId = @ + 1],
            planId, rows, i + 1, skip)

\* Object.values(study_hours_per_day).reduce((sum, h) => sum + (parseInt(h, 10) || 0), 0)
RECURSIVE SumHours(_, _)
SumHours(hours, d) == IF d > 6 THEN 0 ELSE hours[d] + SumHours(hours, d + 1)

totalWeeklyHoursMut(hours) == SumHours(hours, 0) + 1

totalWeeklyHours(hours) == SumHours(hours, 0)

PlanSessions(d, planId) == {s \in d.sessions : s.study_plan_id = planId}

\* ============================================== POST /plans/:planId/generate
InFlight(r) == req[r].pc \notin {"idle", "done"}
Quiet == \A r \in Reqs : ~InFlight(r)

\* the requests offered: caller, plan id and settings of the body
GenerateInputs ==
    {[user |-> 1, planId |-> 1, hours |-> s.hours, dur |-> s.dur] : s \in Settings}
      \cup {[user |-> 2, planId |-> 1, hours |-> HAll, dur |-> 60],
            [user |-> 1, planId |-> 3, hours |-> HAll, dur |-> 60],
            [user |-> 2, planId |-> 2, hours |-> HAll, dur |-> 60]}

Arrive(r, kind, pc) ==
    /\ ~uncaught
    /\ ~InFlight(r)
    /\ ops < MaxOps
    /\ ops' = ops + 1
    /\ UNCHANGED <<db, snapshot, inTxn, uncaught, faults, timers, clock, ran>>

\* the generate run that the slot served last, when its calendar is the stored one
PriorRun(r) ==
    IF req[r].kind = "generate" /\ req[r].committed /\ ~req[r].faulted
    THEN <<[user |-> req[r].user, planId |-> req[r].planId, hours |-> req[r].hours,
            dur |-> req[r].dur, today |-> req[r].today]>>
    ELSE <<>>

GenerateArrives(r) ==
    /\ Arrive(r, "generate", "begin")
    /\ \E in \in GenerateInputs :
          req' = [req EXCEPT ![r] = [Idle EXCEPT !.kind = "generate", !.pc = "begin",
                     !.user = in.user, !.planId = in.planId, !.hours = in.hours,
                     !.dur = in.dur, !.has_essay = TRUE, !.today = Today, !.pre = db,
                     !.prior = PriorRun(r)]]

At(r, kind, pc) == ~uncaught /\ req[r].kind = kind /\ req[r].pc = pc

Goto(r, pc) == req' = [req EXCEPT ![r].pc = pc]

\* a write fails: the dbRun promise rejects and the handler's catch runs
Fault(r) ==
    /\ faults < MaxFaults
    /\ faults' = faults + 1
    /\ req' = [req EXCEPT ![r].pc = "catch", ![r].faulted = TRUE]
    /\ UNCHANGED <<db, snapshot, inTxn, uncaught, ops, timers, clock, ran>>

\* line 585: await dbRun('BEGIN IMMEDIATE TRANSACTION')
GenBegin(r) ==
    /\ At(r, "generate", "begin")
    /\ IF CanBegin
       THEN inTxn' = TRUE /\ snapshot' = db /\ Goto(r, "update")
       ELSE UNCHANGED <<inTxn, snapshot, timers, clock, ran>> /\ Goto(r, "catch")
    /\ UNCHANGED <<db, uncaught, ops, faults, timers, clock, ran>>

\* lines 587-589: await dbRun('UPDATE study_plans SET ...', [7 values])
GenUpdateSettings(r) ==
    /\ At(r, "generate", "update")
    /\ db' = UpdateSettings(db, <<0, 0, req[r].dur, req[r].hours, req[r].has_essay,
                                  req[r].planId, req[r].user>>)
    /\ Goto(r, "select_plan")
    /\ UNCHANGED <<snapshot, inTxn, uncaught, ops, faults, timers, clock, ran>>

GenUpdateSettingsFail(r) == At(r, "generate", "update") /\ Fault(r)

\* lines 591-601: the plan lookup and the zero-hours check
GenSelectPlan(r) ==
    /\ At(r, "generate", "select_plan")
    /\ LET plan == SelectPlan(db, req[r].planId)
       IN  req' = [req EXCEPT ![r].plan = plan,
                              ![r].pc = IF plan = <<>> THEN "rollback_404"
                                        ELSE IF totalWeeklyHours(req[r].hours) = 0
                                             THEN "rollback_400"
                                             ELSE "delete"]
    /\ UNCHANGED <<db, snapshot, inTxn, uncaught, ops, faults, timers, clock, ran>>

\* ROLLBACK on the shared connection: undoes the open transaction, whoever began it
RollbackOk ==
    /\ inTxn
    /\ db' = snapshot
    /\ inTxn' = FALSE
    /\ UNCHANGED snapshot

\* lines 593-594 and 599-600: await dbRun('ROLLBACK'); return res.status(...)
GenRollbackRefuse(r) ==
    /\ ~uncaught /\ req[r].kind = "generate"
    /\ req[r].pc \in {"rollback_404", "rollback_400"}
    /\ IF inTxn
       THEN /\ RollbackOk
            /\ req' = [req EXCEPT ![r].pc = "done",
                          ![r].resp = IF req[r].pc = "rollback_404" THEN "404" ELSE "400"]
       ELSE /\ Goto(r, "catch")
            /\ UNCHANGED <<db, snapshot, inTxn, timers, clock, ran>>
    /\ UNCHANGED <<uncaught, ops, faults, timers, clock, ran>>

\* line 603: await dbRun("DELETE FROM study_sessions WHERE study_plan_id = ?")
GenDeleteSessions(r) ==
    /\ At(r, "generate", "delete")
    /\ db' = DeleteSessions(db, req[r].planId)
    /\ Goto(r, "select_topics")
    /\ UNCHANGED <<snapshot, inTxn, uncaught, ops, faults, timers, clock, ran>>

GenDeleteSessionsFail(r) == At(r, "generate", "delete") /\ Fault(r)

\* lines 614-619: allTopics
GenSelectTopics(r) ==
    /\ At(r, "generate", "select_topics")
    /\ LET allTopics == SelectAllTopics(db, req[r].planId)
       IN  req' = [req EXCEPT ![r].allTopics = allTopics,
                              ![r].pc = IF Len(allTopics) = 0 THEN "commit_empty"
                                        ELSE "schedule"]
    /\ UNCHANGED <<db, snapshot, inTxn, uncaught, ops, faults, timers, clock, ran>>

\* COMMIT on the shared connection fails when no transaction is open
CommitOk ==
    /\ inTxn
    /\ inTxn' = FALSE
    /\ UNCHANGED <<db, snapshot, timers, clock, ran>>

\* lines 617-618: await dbRun('COMMIT'); return res.json({ message })
GenCommitEmpty(r) ==
    /\ At(r, "generate", "commit_empty")
    /\ IF inTxn
       THEN /\ CommitOk
            /\ req' = [req EXCEPT ![r].pc = "done", ![r].resp = "200",
                                  ![r].committed = TRUE]
       ELSE /\ Goto(r, "catch")
            /\ UNCHANGED <<db, snapshot, inTxn, timers, clock, ran>>
    /\ UNCHANGED <<uncaught, ops, faults, timers, clock, ran>>

\* the orders in which the shuffle and de-duplication can leave the pending topics
ShuffleOrders(pendingTopics) ==
    {uniquePendingTopicsInOrder(pendingTopics, rnd) :
        rnd \in Draws(Len(WeightedTopics(pendingTopics, 1)))}

\* lines 621-866: completedTopics is read, then the calendar is computed in memory
GenSchedule(r) ==
    /\ At(r, "generate", "schedule")
    /\ LET plan == req[r].plan[1]
           ctx == [hours |-> req[r].hours, dur |-> req[r].dur,
                   examDate |-> plan.exam_date, today |-> req[r].today]
           completedTopics == SelectCompletedTopics(db, req[r].planId)
       IN  \E order \in ShuffleOrders(SelectSeq(req[r].allTopics, IsPending)) :
              LET st == PlanRun(ctx, plan.has_essay, req[r].allTopics, completedTopics, order)
              IN  req' = [req EXCEPT ![r].agenda = st.agenda, ![r].cache = st.cache,
                                     ![r].pc = IF Len(st.agenda) > 0 THEN "insert"
                                               ELSE "commit"]
    /\ UNCHANGED <<db, snapshot, inTxn, uncaught, ops, faults, timers, clock, ran>>

\* lines 868-891: stmt.run per session, then await stmt.finalize
GenInsertSessions(r) ==
    /\ At(r, "generate", "insert")
    /\ db' = InsertRows(db, req[r].planId, sessionsToCreate(req[r].agenda), 1, 0)
    /\ Goto(r, "commit")
    /\ UNCHANGED <<snapshot, inTxn, uncaught, ops, faults, timers, clock, ran>>

\* positions of the batch at which a stmt.run may fail
FailingRuns(agenda) == {1}

\* one stmt.run fails: it has no callback, so the error is emitted as an 'error'
\* event on the statement, outside the handler's try/catch; finalize still resolves
GenInsertSessionsFail(r) ==
    /\ At(r, "generate", "insert")
    /\ faults < MaxFaults
    /\ faults' = faults + 1
    /\ \E k \in FailingRuns(req[r].agenda) :
          db' = InsertRows(db, req[r].planId, sessionsToCreate(req[r].agenda), 1, k)
    /\ req' = [req EXCEPT ![r].pc = "commit", ![r].faulted = TRUE]
    /\ uncaught' = TRUE
    /\ UNCHANGED <<snapshot, inTxn, ops, timers, clock, ran>>

\* lines 893-905: await dbRun('COMMIT'); the response body then reads startTime,
\* which is declared nowhere: a ReferenceError that lands in the catch block
GenCommit(r) ==
    /\ At(r, "generate", "commit")
    /\ IF inTxn
       THEN /\ CommitOk
            /\ req' = [req EXCEPT ![r].pc = "catch", ![r].committed = TRUE]
       ELSE /\ Goto(r, "catch")
            /\ UNCHANGED <<db, snapshot, inTxn, timers, clock, ran>>
    /\ UNCHANGED <<uncaught, ops, faults, timers, clock, ran>>

\* lines 907-912: await dbRun('ROLLBACK'); res.status(500); a ROLLBACK without
\* open transaction rejects inside the catch block: no response, unhandled rejection
GenCatch(r) ==
    /\ At(r, "generate", "catch")
    /\ IF inTxn
       THEN /\ RollbackOk
            /\ req' = [req EXCEPT ![r].pc = "done", ![r].resp = "500"]
            /\ UNCHANGED uncaught
       ELSE /\ req' = [req EXCEPT ![r].pc = "done", ![r].resp = "none"]
            /\ uncaught' = TRUE
            /\ UNCHANGED <<db, snapshot, inTxn, timers, clock, ran>>
    /\ UNCHANGED <<ops, faults, timers, clock, ran>>

\* ------------------------------------------------------ the node process
\* node 18 ends the process on an uncaught error: the open transaction is lost
\* and every request in flight is left without a response
ProcessExit ==
    /\ uncaught
    /\ uncaught' = FALSE
    /\ db' = IF inTxn THEN snapshot ELSE db
    /\ inTxn' = FALSE
    /\ req' = [r \in Reqs |-> IF InFlight(r)
                              THEN [req[r] EXCEPT !.pc = "done", !.resp = "none"]
                              ELSE req[r]]
    /\ UNCHANGED <<snapshot, ops, faults, timers, clock, ran>>

Generate(r) ==
    \/ GenBegin(r) \/ GenUpdateSettings(r)
    \/ GenSelectPlan(r) \/ GenRollbackRefuse(r)
    \/ GenDeleteSessions(r)
    \/ GenSelectTopics(r) \/ GenCommitEmpty(r) \/ GenSchedule(r)
    \/ GenInsertSessions(r)
    \/ GenCommit(r) \/ GenCatch(r)

GenerateFaults(r) ==
    GenUpdateSettingsFail(r) \/ GenDeleteSessionsFail(r) \/ GenInsertSessionsFail(r)


\* ================================================ POST /plans/:planId/replan
\* "SELECT * FROM study_sessions WHERE study_plan_id = ? AND status = 'Pendente'
\*  AND session_date < ? ORDER BY session_date, id"
\* variant: ORDER BY id alone
OverdueLessMut(a, b) ==
    a.id < b.id

OverdueLess(a, b) ==
    a.session_date < b.session_date \/ (a.session_date = b.session_date /\ a.id < b.id)

RECURSIVE SortOverdue(_)
SortOverdue(rows) ==
    IF rows = {} THEN <<>>
    ELSE LET first == CHOOSE x \in rows : \A y \in rows \ {x} : OverdueLess(x, y)
         IN  <<first>> \o SortOverdue(rows \ {first})

SelectOverdue(d, planId, todayStr) ==
    SortOverdue({s \in d.sessions : /\ s.study_plan_id = planId
                                    /\ s.status = Pendente
                                    /\ s.session_date < todayStr})

\* 'SELECT COUNT(*) as count FROM study_sessions WHERE study_plan_id = ? AND session_date = ?'
SessionCount(d, planId, dateStr) ==
    Cardinality({s \in d.sessions : s.study_plan_id = planId /\ s.session_date = dateStr})

\* findNextAvailableSlot of the replan route (lines 1039-1062); NULL when none
RECURSIVE replanFindNextAvailableSlot(_, _, _, _)
replanFindNextAvailableSlot(d, plan, planId, currentDate) ==
    IF currentDate > plan.exam_date THEN NULL
    ELSE LET dayOfWeek == getDay(currentDate)
             totalMinutes == plan.study_hours_per_day[dayOfWeek] * 60
             maxSessions == totalMinutes \div plan.session_duration_minutes
         IN  IF dayOfWeek = 0
             THEN replanFindNextAvailableSlot(d, plan, planId, currentDate + 1)
             ELSE IF totalMinutes > 0 /\ SessionCount(d, planId, currentDate) < maxSessions
                  THEN currentDate
                  ELSE replanFindNextAvailableSlot(d, plan, planId, currentDate + 1)

\* variant: SET session_date = ?, status = 'Concluido'
UpdateSessionDateMut(d, id, newDateStr) ==
    [d EXCEPT !.sessions =
        {IF s.id = id THEN [s EXCEPT !.session_date = newDateStr, !.status = Concluido]
         ELSE s : s \in @}]

\* "UPDATE study_sessions SET session_date = ? WHERE id = ?"
UpdateSessionDate(d, id, newDateStr) ==
    [d EXCEPT !.sessions =
        {IF s.id = id THEN [s EXCEPT !.session_date = newDateStr] ELSE s : s \in @}]

\* variant: postponement_count - 1
IncrementPostponementMut(d, planId) ==
    IF planId \in DOMAIN d.plans
    THEN [d EXCEPT !.plans[planId].postponement_count = @ - 1]
    ELSE d

\* "UPDATE study_plans SET postponement_count = postponement_count + 1 WHERE id = ?"
IncrementPostponement(d, planId) ==
    IF planId \in DOMAIN d.plans
    THEN [d EXCEPT !.plans[planId].postponement_count = @ + 1]
    ELSE d

ReplanInputs == {[user |-> 1, planId |-> 1], [user |-> 2, planId |-> 2],
                 [user |-> 2, planId |-> 1]}

\* what the preview that the caller was shown just before promised, when the
\* slot's last request was a preview of the same plan by the same caller
LastPreview(r, user, planId) ==
    IF /\ req[r].kind = "preview" /\ req[r].resp = "200" /\ req[r].hasOverdue
       /\ req[r].user = user /\ req[r].planId = planId
    THEN req[r].fullPreview
    ELSE <<>>

ReplanArrives(r) ==
    /\ Arrive(r, "replan", "plan")
    /\ \E in \in ReplanInputs :
          req' = [req EXCEPT ![r] = [Idle EXCEPT !.kind = "replan", !.pc = "plan",
                     !.user = in.user, !.planId = in.planId, !.today = Today, !.pre = db,
                     !.previewed = LastPreview(r, in.user, in.planId)]]

\* lines 1025-1026
ReplanSelectPlan(r) ==
    /\ At(r, "replan", "plan")
    /\ LET plan == SelectOwnPlan(db, req[r].planId, req[r].user)
       IN  req' = [req EXCEPT ![r].plan = plan,
                      ![r].pc = IF plan = <<>> THEN "done" ELSE "overdue",
                      ![r].resp = IF plan = <<>> THEN "404" ELSE "none"]
    /\ UNCHANGED <<db, snapshot, inTxn, uncaught, ops, faults, timers, clock, ran>>

\* lines 1028-1033
ReplanSelectOverdue(r) ==
    /\ At(r, "replan", "overdue")
    /\ LET overdueSessions == SelectOverdue(db, req[r].planId, req[r].today)
       IN  req' = [req EXCEPT ![r].overdue = overdueSessions,
                      ![r].pc = IF Len(overdueSessions) = 0 THEN "done" ELSE "begin",
                      ![r].resp = IF Len(overdueSessions) = 0 THEN "200" ELSE "none"]
    /\ UNCHANGED <<db, snapshot, inTxn, uncaught, ops, faults, timers, clock, ran>>

\* lines 1064-1066: await dbRun('BEGIN TRANSACTION'); dateForNextSlot = new Date()
ReplanBegin(r) ==
    /\ At(r, "replan", "begin")
    /\ IF CanBegin
       THEN /\ inTxn' = TRUE /\ snapshot' = db
            /\ req' = [req EXCEPT ![r].pc = "find", ![r].idx = 1, ![r].cursor = req[r].today]
       ELSE UNCHANGED <<inTxn, snapshot, timers, clock, ran>> /\ Goto(r, "catch")
    /\ UNCHANGED <<db, uncaught, ops, faults, timers, clock, ran>>

\* lines 1067-1069 and 1073-1075: the slot search for overdueSessions[idx]
ReplanFindSlot(r) ==
    /\ At(r, "replan", "find")
    /\ LET newDate == replanFindNextAvailableSlot(db, req[r].plan[1], req[r].planId,
                                                  req[r].cursor)
       IN  req' = [req EXCEPT ![r].newDate = newDate,
                      ![r].pc = IF newDate # NULL THEN "update" ELSE "counter"]
    /\ UNCHANGED <<db, snapshot, inTxn, uncaught, ops, faults, timers, clock, ran>>

\* lines 1070-1072: the date update, dateForNextSlot = newDate, next session
ReplanUpdateDate(r) ==
    /\ At(r, "replan", "update")
    /\ db' = UpdateSessionDate(db, req[r].overdue[req[r].idx].id, req[r].newDate)
    /\ req' = [req EXCEPT ![r].cursor = req[r].newDate, ![r].idx = @ + 1,
                  ![r].moved = @ + 1,
                  ![r].pc = IF req[r].idx + 1 > Len(req[r].overdue) THEN "counter"
                            ELSE "find"]
    /\ UNCHANGED <<snapshot, inTxn, uncaught, ops, faults, timers, clock, ran>>

ReplanUpdateDateFail(r) == At(r, "replan", "update") /\ Fault(r)

\* line 1078
ReplanIncrement(r) ==
    /\ At(r, "replan", "counter")
    /\ db' = IncrementPostponement(db, req[r].planId)
    /\ Goto(r, "commit")
    /\ UNCHANGED <<snapshot, inTxn, uncaught, ops, faults, timers, clock, ran>>

ReplanIncrementFail(r) == At(r, "replan", "counter") /\ Fault(r)

\* lines 1079-1081: COMMIT, then the message with overdueSessions.length
ReplanCommit(r) ==
    /\ At(r, "replan", "commit")
    /\ IF inTxn
       THEN /\ CommitOk
            /\ req' = [req EXCEPT ![r].pc = "done", ![r].resp = "200",
                                  ![r].committed = TRUE,
                                  ![r].count = Len(req[r].overdue)]
       ELSE /\ Goto(r, "catch")
            /\ UNCHANGED <<db, snapshot, inTxn, timers, clock, ran>>
    /\ UNCHANGED <<uncaught, ops, faults, timers, clock, ran>>

\* lines 1083-1087
ReplanCatch(r) ==
    /\ At(r, "replan", "catch")
    /\ IF inTxn
       THEN /\ RollbackOk
            /\ req' = [req EXCEPT ![r].pc = "done", ![r].resp = "500"]
            /\ UNCHANGED uncaught
       ELSE /\ req' = [req EXCEPT ![r].pc = "done", ![r].resp = "none"]
            /\ uncaught' = TRUE
            /\ UNCHANGED <<db, snapshot, inTxn, timers, clock, ran>>
    /\ UNCHANGED <<ops, faults, timers, clock, ran>>

Replan(r) ==
    \/ ReplanSelectPlan(r) \/ ReplanSelectOverdue(r) \/ ReplanBegin(r)
    \/ ReplanFindSlot(r) \/ ReplanUpdateDate(r)
    \/ ReplanIncrement(r)
    \/ ReplanCommit(r) \/ ReplanCatch(r)

ReplanFaults(r) == ReplanUpdateDateFail(r) \/ ReplanIncrementFail(r)

\* ========================================= GET /plans/:planId/replan-preview
\* Object.keys(studyHoursPerDay): integer-like keys in ascending order
RECURSIVE KeysFrom(_, _)
KeysFrom(hours, k) ==
    IF k > 6 THEN <<>>
    ELSE IF k \in DOMAIN hours THEN <<k>> \o KeysFrom(hours, k + 1)
    ELSE KeysFrom(hours, k + 1)

\* studyHoursPerDay[Object.keys(studyHoursPerDay)[dayOfWeek]] (0 for undefined)
hoursForDay(hours, dayOfWeek) ==
    LET keys == KeysFrom(hours, 0)
    IN  IF dayOfWeek + 1 <= Len(keys) THEN hours[keys[dayOfWeek + 1]] ELSE 0

\* sessionCountsQuery: COUNT(*) ... session_date BETWEEN todayStr AND endDateStr
\* GROUP BY session_date, loaded into sessionCountsCache (absent dates: 0)
SelectSessionCounts(d, planId, todayStr, endDateStr) ==
    [dateStr \in todayStr..endDateStr |-> SessionCount(d, planId, dateStr)]

\* the number of entries of replanPreview that the response carries
PreviewLimit == 5

\* the while loop of the preview for one session: the first date from
\* currentDate on with room for one more session, NULL past the exam date
RECURSIVE previewSlot(_, _, _)
previewSlot(plan, counts, currentDate) ==
    IF currentDate > plan.exam_date THEN NULL
    ELSE LET hours == hoursForDay(plan.study_hours_per_day, getDay(currentDate))
             minutesAvailable == hours * 60
             sessionsCount == IF currentDate \in DOMAIN counts THEN counts[currentDate] ELSE 0
             usedMinutes == sessionsCount * plan.session_duration_minutes
         IN  IF hours > 0 /\ usedMinutes + plan.session_duration_minutes <= minutesAvailable
             THEN currentDate
             ELSE previewSlot(plan, counts, currentDate + 1)

\* for (const session of overdueSessions) { ... }: the entries pushed
RECURSIVE previewLoop(_, _, _, _, _)
previewLoop(plan, overdueSessions, i, counts, currentDate) ==
    IF i > Len(overdueSessions) THEN <<>>
    ELSE LET dateStr == previewSlot(plan, counts, currentDate)
             session == overdueSessions[i]
         IN  IF dateStr = NULL
             THEN previewLoop(plan, overdueSessions, i + 1, counts, plan.exam_date + 1)
             ELSE <<[sessionId |-> session.id, originalDate |-> session.session_date,
                     newDate |-> dateStr]>>
                  \o previewLoop(plan, overdueSessions, i + 1,
                                 [counts EXCEPT ![dateStr] = @ + 1], dateStr)

PreviewInputs == {[user |-> 1, planId |-> 1], [user |-> 2, planId |-> 2],
                  [user |-> 2, planId |-> 1]}

PreviewArrives(r) ==
    /\ Arrive(r, "preview", "plan")
    /\ \E in \in PreviewInputs :
          req' = [req EXCEPT ![r] = [Idle EXCEPT !.kind = "preview", !.pc = "plan",
                     !.user = in.user, !.planId = in.planId, !.today = Today, !.pre = db]]

\* lines 926-927
PreviewSelectPlan(r) ==
    /\ At(r, "preview", "plan")
    /\ LET plan == SelectOwnPlan(db, req[r].planId, req[r].user)
       IN  req' = [req EXCEPT ![r].plan = plan,
                      ![r].pc = IF plan = <<>> THEN "done" ELSE "overdue",
                      ![r].resp = IF plan = <<>> THEN "404" ELSE "none"]
    /\ UNCHANGED <<db, snapshot, inTxn, uncaught, ops, faults, timers, clock, ran>>

\* lines 929-937
PreviewSelectOverdue(r) ==
    /\ At(r, "preview", "overdue")
    /\ LET overdueSessions == SelectOverdue(db, req[r].planId, req[r].today)
       IN  req' = [req EXCEPT ![r].overdue = overdueSessions,
                      ![r].pc = IF Len(overdueSessions) = 0 THEN "done" ELSE "counts",
                      ![r].resp = IF Len(overdueSessions) = 0 THEN "200" ELSE "none"]
    /\ UNCHANGED <<db, snapshot, inTxn, uncaught, ops, faults, timers, clock, ran>>

\* variant: the preview applies the first move while it reads the counts
PreviewSelectCountsMut(r) ==
    /\ At(r, "preview", "counts")
    /\ req' = [req EXCEPT ![r].counts = SelectSessionCounts(db, req[r].planId, req[r].today,
                                                          req[r].plan[1].exam_date),
                          ![r].pc = "simulate"]
    /\ db' = UpdateSessionDate(db, req[r].overdue[1].id, req[r].today)
    /\ UNCHANGED <<snapshot, inTxn, uncaught, ops, faults, timers, clock, ran>>

\* lines 939-957: the per-date counts are read once
PreviewSelectCounts(r) ==
    /\ At(r, "preview", "counts")
    /\ req' = [req EXCEPT ![r].counts = SelectSessionCounts(db, req[r].planId, req[r].today,
                                                          req[r].plan[1].exam_date),
                          ![r].pc = "simulate"]
    /\ UNCHANGED <<db, snapshot, inTxn, uncaught, ops, faults, timers, clock, ran>>

\* lines 959-1008: the simulation and the response
PreviewRespond(r) ==
    /\ At(r, "preview", "simulate")
    /\ LET replanPreview == previewLoop(req[r].plan[1], req[r].overdue, 1, req[r].counts,
                                        req[r].today)
           shown == IF Len(replanPreview) <= PreviewLimit THEN Len(replanPreview)
                    ELSE PreviewLimit
       IN  req' = [req EXCEPT ![r].fullPreview = replanPreview,
                      ![r].replanPreview = SubSeq(replanPreview, 1, shown),
                      ![r].totalToReplan = Len(replanPreview),
                      ![r].count = Len(req[r].overdue),
                      ![r].hasOverdue = TRUE,
                      ![r].pc = "done", ![r].resp = "200"]
    /\ UNCHANGED <<db, snapshot, inTxn, uncaught, ops, faults, timers, clock, ran>>

Preview(r) ==
    \/ PreviewSelectPlan(r) \/ PreviewSelectOverdue(r)
    \/ PreviewSelectCounts(r) \/ PreviewRespond(r)

\* ========================================= POST /sessions/:sessionId/reinforce
\* 'SELECT ss.* FROM study_sessions ss JOIN study_plans sp ON ss.study_plan_id = sp.id
\*  WHERE ss.id = ? AND sp.user_id = ?'
SelectOwnSession(d, sessionId, userId) ==
    LET rows == {s \in d.sessions : /\ s.id = sessionId
                                    /\ s.study_plan_id \in DOMAIN d.plans
                                    /\ d.plans[s.study_plan_id].user_id = userId}
    IN  IF rows = {} THEN <<>> ELSE <<CHOOSE s \in rows : TRUE>>

\* 'SELECT * FROM study_sessions WHERE id = ?'
SelectSession(d, sessionId) ==
    LET rows == {s \in d.sessions : s.id = sessionId}
    IN  IF rows = {} THEN <<>> ELSE <<CHOOSE s \in rows : TRUE>>

\* 'INSERT INTO study_sessions (...) VALUES (?, ?, ?, ?, ?, ?, ?)'
InsertSession(d, planId, topicId, subjectName, topicDescription, dateStr, sessionType) ==
    [d EXCEPT !.sessions = @ \cup
                {Session(d.lastId + 1, planId, topicId, subjectName, topicDescription, dateStr,
                         sessionType, Pendente)},
              !.lastId = @ + 1]

ReinforceInputs == {[user |-> 1, sessionId |-> 2], [user |-> 2, sessionId |-> 2],
                    [user |-> 2, sessionId |-> 3]}

ReinforceArrives(r) ==
    /\ Arrive(r, "reinforce", "select")
    /\ \E in \in ReinforceInputs :
          req' = [req EXCEPT ![r] = [Idle EXCEPT !.kind = "reinforce", !.pc = "select",
                     !.user = in.user, !.sessionId = in.sessionId, !.today = Today,
                     !.pre = db]]

\* lines 1581-1582 of server_backup_before_simulados.js
ReinforceSelect(r) ==
    /\ At(r, "reinforce", "select")
    /\ LET session == SelectOwnSession(db, req[r].sessionId, req[r].user)
           refused == session = <<>> \/ session[1].topic_id = NULL
       IN  req' = [req EXCEPT ![r].session = session,
                      ![r].pc = IF refused THEN "done" ELSE "insert",
                      ![r].resp = IF refused THEN "404" ELSE "none"]
    /\ UNCHANGED <<db, snapshot, inTxn, uncaught, ops, faults, timers, clock, ran>>

\* variant: the follow-up is stored without the topic description
ReinforceInsertMut(r) ==
    /\ At(r, "reinforce", "insert")
    /\ LET session == req[r].session[1]
       IN  db' = InsertSession(db, session.study_plan_id, session.topic_id,
                               session.subject_name, "",
                               req[r].today + ReinforceDays, ReforcoExtra)
    /\ req' = [req EXCEPT ![r].pc = "done", ![r].resp = "201"]
    /\ UNCHANGED <<snapshot, inTxn, uncaught, ops, faults, timers, clock, ran>>

\* lines 1584-1591: reinforceDate = today + 3, INSERT, 201
ReinforceInsert(r) ==
    /\ At(r, "reinforce", "insert")
    /\ LET session == req[r].session[1]
       IN  db' = InsertSession(db, session.study_plan_id, session.topic_id,
                               session.subject_name, session.topic_description,
                               req[r].today + ReinforceDays,
                               ReforcoExtra)
    /\ req' = [req EXCEPT ![r].pc = "done", ![r].resp = "201"]
    /\ UNCHANGED <<snapshot, inTxn, uncaught, ops, faults, timers, clock, ran>>

\* lines 1592-1595: the catch block answers 500, nothing to undo
ReinforceInsertFail(r) ==
    /\ At(r, "reinforce", "insert")
    /\ faults < MaxFaults
    /\ faults' = faults + 1
    /\ req' = [req EXCEPT ![r].pc = "done", ![r].resp = "500", ![r].faulted = TRUE]
    /\ UNCHANGED <<db, snapshot, inTxn, uncaught, ops, timers, clock, ran>>

Reinforce(r) == ReinforceSelect(r) \/ ReinforceInsert(r)

\* ========================================= PATCH /sessions/:sessionId/postpone
\* findNextStudyDay(date) (lines 1620-1627); NULL when none
RECURSIVE findNextStudyDay(_, _)
findNextStudyDay(plan, nextDay) ==
    IF nextDay > plan.exam_date THEN NULL
    ELSE IF getDay(nextDay) # 0 /\ plan.study_hours_per_day[getDay(nextDay)] > 0
         THEN nextDay
         ELSE findNextStudyDay(plan, nextDay + 1)

\* days: 'next' (next = TRUE) or a number of days 1..30
PostponeInputs ==
    {[user |-> 1, sessionId |-> 2, next |-> TRUE, days |-> 0],
     [user |-> 1, sessionId |-> 1, next |-> FALSE, days |-> 4],
     [user |-> 1, sessionId |-> 2, next |-> FALSE, days |-> 30],
     [user |-> 1, sessionId |-> 2, next |-> FALSE, days |-> 3],
     [user |-> 2, sessionId |-> 1, next |-> TRUE, days |-> 0],
     [user |-> 1, sessionId |-> 99, next |-> TRUE, days |-> 0]}

PostponeArrives(r) ==
    /\ Arrive(r, "postpone", "session")
    /\ \E in \in PostponeInputs :
          req' = [req EXCEPT ![r] = [Idle EXCEPT !.kind = "postpone", !.pc = "session",
                     !.user = in.user, !.sessionId = in.sessionId, !.next = in.next,
                     !.days = in.days, !.today = Today, !.pre = db]]

\* lines 1611-1612
PostponeSelectSession(r) ==
    /\ At(r, "postpone", "session")
    /\ LET session == SelectSession(db, req[r].sessionId)
       IN  req' = [req EXCEPT ![r].session = session,
                      ![r].pc = IF session = <<>> THEN "done" ELSE "plan",
                      ![r].resp = IF session = <<>> THEN "404" ELSE "none"]
    /\ UNCHANGED <<db, snapshot, inTxn, uncaught, ops, faults, timers, clock, ran>>

\* lines 1614-1640: owner check, target date, findNextStudyDay
PostponeSelectPlan(r) ==
    /\ At(r, "postpone", "plan")
    /\ LET session == req[r].session[1]
           plan == SelectOwnPlan(db, session.study_plan_id, req[r].user)
           targetDate == session.session_date + (IF req[r].next THEN 1 ELSE req[r].days)
           newDate == IF plan = <<>> THEN NULL ELSE findNextStudyDay(plan[1], targetDate)
       IN  req' = [req EXCEPT ![r].plan = plan, ![r].newDate = newDate,
                      ![r].pc = IF newDate = NULL THEN "done" ELSE "update",
                      ![r].resp = IF plan = <<>> THEN "403"
                                  ELSE IF newDate = NULL THEN "400" ELSE "none"]
    /\ UNCHANGED <<db, snapshot, inTxn, uncaught, ops, faults, timers, clock, ran>>

\* lines 1642-1645
PostponeUpdate(r) ==
    /\ At(r, "postpone", "update")
    /\ db' = UpdateSessionDate(db, req[r].sessionId, req[r].newDate)
    /\ req' = [req EXCEPT ![r].pc = "done", ![r].resp = "200"]
    /\ UNCHANGED <<snapshot, inTxn, uncaught, ops, faults, timers, clock, ran>>

Postpone(r) == PostponeSelectSession(r) \/ PostponeSelectPlan(r) \/ PostponeUpdate(r)

\* ================================================= PATCH /sessions/:sessionId
\* (server_backup_before_simulados.js, lines 1463-1520)
\* notes are numbered texts: NULL for none, k for the k-th text
\* "UPDATE study_sessions SET ${fields.join(', ')} WHERE id = ? AND study_plan_id IN
\*  (SELECT id FROM study_plans WHERE user_id = ?)"
OwnedBy(d, s, userId) ==
    s.study_plan_id \in DOMAIN d.plans /\ d.plans[s.study_plan_id].user_id = userId

UpdateSessionFields(d, fields, in, sessionId, userId) ==
    [d EXCEPT !.sessions =
        {IF s.id = sessionId /\ OwnedBy(d, s, userId)
         THEN [s EXCEPT !.status = IF "status" \in fields THEN in.status ELSE @,
                        !.notes = IF "notes" \in fields THEN in.notes ELSE @,
                        !.questions_solved = IF "questions_solved" \in fields
                                             THEN in.questions_solved ELSE @]
         ELSE s : s \in @}]

\* result.changes of that UPDATE
ChangesOf(d, sessionId, userId) ==
    Cardinality({s \in d.sessions : s.id = sessionId /\ OwnedBy(d, s, userId)})

\* 'UPDATE topics SET status = ?, completion_date = ? WHERE id = ?'
UpdateTopic(d, topicId, status, completionDate) ==
    [d EXCEPT !.topics =
        {IF t.id = topicId THEN [t EXCEPT !.status = status,
                                          !.completion_date = completionDate]
         ELSE t : t \in @}]

UpdateInputs ==
    {[user |-> 1, sessionId |-> 1, fields |-> {"status"}, status |-> Concluido,
      notes |-> 0, questions_solved |-> 0],
     [user |-> 1, sessionId |-> 1, fields |-> {"status", "notes"}, status |-> Pendente,
      notes |-> 1, questions_solved |-> 0],
     [user |-> 1, sessionId |-> 2, fields |-> {"status"}, status |-> Concluido,
      notes |-> 0, questions_solved |-> 0],
     [user |-> 1, sessionId |-> 1, fields |-> {"notes", "questions_solved"}, status |-> "",
      notes |-> 1, questions_solved |-> 5],
     [user |-> 2, sessionId |-> 1, fields |-> {"status"}, status |-> Concluido,
      notes |-> 0, questions_solved |-> 0],
     [user |-> 1, sessionId |-> 1, fields |-> {}, status |-> "",
      notes |-> 0, questions_solved |-> 0]}

UpdateArrives(r) ==
    /\ Arrive(r, "update", "fields")
    /\ \E in \in UpdateInputs :
          req' = [req EXCEPT ![r] = [Idle EXCEPT !.kind = "update", !.pc = "fields",
                     !.user = in.user, !.sessionId = in.sessionId, !.fields = in.fields,
                     !.status = in.status, !.notes = in.notes,
                     !.questions_solved = in.questions_solved, !.today = Today,
                     !.pre = db]]

\* lines 1475-1483: 400 without fields, else BEGIN TRANSACTION
UpdateBegin(r) ==
    /\ At(r, "update", "fields")
    /\ IF req[r].fields = {}
       THEN /\ req' = [req EXCEPT ![r].pc = "done", ![r].resp = "400"]
            /\ UNCHANGED <<inTxn, snapshot, timers, clock, ran>>
       ELSE IF CanBegin
       THEN /\ inTxn' = TRUE /\ snapshot' = db
            /\ Goto(r, "run")
       ELSE UNCHANGED <<inTxn, snapshot, timers, clock, ran>> /\ Goto(r, "catch")
    /\ UNCHANGED <<db, uncaught, ops, faults, timers, clock, ran>>

\* lines 1485-1489: the session UPDATE
UpdateRun(r) ==
    /\ At(r, "update", "run")
    /\ db' = UpdateSessionFields(db, req[r].fields, req[r], req[r].sessionId, req[r].user)
    /\ req' = [req EXCEPT ![r].changes = ChangesOf(db, req[r].sessionId, req[r].user),
                          ![r].pc = IF ChangesOf(db, req[r].sessionId, req[r].user) = 0
                                    THEN "refuse" ELSE "topic"]
    /\ UNCHANGED <<snapshot, inTxn, uncaught, ops, faults, timers, clock, ran>>

\* lines 1491-1494: ROLLBACK and 404 when no row was updated
UpdateRefuse(r) ==
    /\ At(r, "update", "refuse")
    /\ IF inTxn
       THEN /\ RollbackOk
            /\ req' = [req EXCEPT ![r].pc = "done", ![r].resp = "404"]
       ELSE /\ Goto(r, "catch")
            /\ UNCHANGED <<db, snapshot, inTxn, timers, clock, ran>>
    /\ UNCHANGED <<uncaught, ops, faults, timers, clock, ran>>

\* lines 1496-1510: the topic follows the status of its 'Novo Tópico' session
UpdateTopicStatus(r) ==
    /\ At(r, "update", "topic")
    /\ LET session == SelectSession(db, req[r].sessionId)
           applies == /\ "status" \in req[r].fields
                      /\ session # <<>>
                      /\ session[1].topic_id # NULL
                      /\ session[1].session_type = NovoTopico
       IN  db' = IF applies /\ req[r].status = Concluido
                 THEN UpdateTopic(db, session[1].topic_id, Concluido,
                                  IF session[1].session_date # NULL
                                  THEN session[1].session_date ELSE req[r].today)
                 ELSE IF applies /\ req[r].status = Pendente
                 THEN UpdateTopic(db, session[1].topic_id, Pendente, NULL)
                 ELSE db
    /\ Goto(r, "commit")
    /\ UNCHANGED <<snapshot, inTxn, uncaught, ops, faults, timers, clock, ran>>

UpdateTopicStatusFail(r) == At(r, "update", "topic") /\ Fault(r)

\* lines 1512-1513
UpdateCommit(r) ==
    /\ At(r, "update", "commit")
    /\ IF inTxn
       THEN /\ CommitOk
            /\ req' = [req EXCEPT ![r].pc = "done", ![r].resp = "200",
                                  ![r].committed = TRUE]
       ELSE /\ Goto(r, "catch")
            /\ UNCHANGED <<db, snapshot, inTxn, timers, clock, ran>>
    /\ UNCHANGED <<uncaught, ops, faults, timers, clock, ran>>

\* lines 1515-1519
UpdateCatch(r) ==
    /\ At(r, "update", "catch")
    /\ IF inTxn
       THEN /\ RollbackOk
            /\ req' = [req EXCEPT ![r].pc = "done", ![r].resp = "500"]
            /\ UNCHANGED uncaught
       ELSE /\ req' = [req EXCEPT ![r].pc = "done", ![r].resp = "none"]
            /\ uncaught' = TRUE
            /\ UNCHANGED <<db, snapshot, inTxn, timers, clock, ran>>
    /\ UNCHANGED <<ops, faults, timers, clock, ran>>

Update(r) ==
    \/ UpdateBegin(r) \/ UpdateRun(r) \/ UpdateRefuse(r)
    \/ UpdateTopicStatus(r) \/ UpdateCommit(r) \/ UpdateCatch(r)

\* ======================================== PATCH /sessions/batch_update_status
\* (server_backup_before_simulados.js, lines 1523-1571)
\* "UPDATE study_sessions SET status = ? WHERE id = ? AND EXISTS (SELECT 1 FROM
\*  study_plans WHERE study_plans.id = study_sessions.study_plan_id AND
\*  study_plans.user_id = ?)"
UpdateSessionStatus(d, status, sessionId, userId) ==
    [d EXCEPT !.sessions =
        {IF s.id = sessionId /\ OwnedBy(d, s, userId) THEN [s EXCEPT !.status = status]
         ELSE s : s \in @}]

BatchInputs ==
    {[user |-> 1, sessions |-> <<[id |-> 1, status |-> Concluido],
                                [id |-> 2, status |-> Concluido]>>],
     [user |-> 1, sessions |-> <<[id |-> 1, status |-> Pendente]>>],
     [user |-> 2, sessions |-> <<[id |-> 1, status |-> Concluido],
                                [id |-> 3, status |-> Concluido]>>],
     [user |-> 1, sessions |-> <<>>]}

BatchArrives(r) ==
    /\ Arrive(r, "batch", "begin")
    /\ \E in \in BatchInputs :
          req' = [req EXCEPT ![r] = [Idle EXCEPT !.kind = "batch", !.pc = "begin",
                     !.user = in.user, !.sessions = in.sessions, !.today = Today,
                     !.pre = db]]

\* lines 1534-1546: BEGIN TRANSACTION, db.prepare
BatchBegin(r) ==
    /\ At(r, "batch", "begin")
    /\ IF CanBegin
       THEN /\ inTxn' = TRUE /\ snapshot' = db
            /\ req' = [req EXCEPT ![r].idx = 1,
                                  ![r].pc = IF Len(req[r].sessions) = 0 THEN "commit"
                                            ELSE "run"]
       ELSE UNCHANGED <<inTxn, snapshot, timers, clock, ran>> /\ Goto(r, "catch")
    /\ UNCHANGED <<db, uncaught, ops, faults, timers, clock, ran>>

\* lines 1548-1561: one stmt.run of the loop; a row that is not found or not
\* owned is logged and skipped
BatchRun(r) ==
    /\ At(r, "batch", "run")
    /\ LET session == req[r].sessions[req[r].idx]
       IN  db' = UpdateSessionStatus(db, session.status, session.id, req[r].user)
    /\ req' = [req EXCEPT ![r].idx = @ + 1,
                          ![r].pc = IF req[r].idx + 1 > Len(req[r].sessions) THEN "commit"
                                    ELSE "run"]
    /\ UNCHANGED <<snapshot, inTxn, uncaught, ops, faults, timers, clock, ran>>

\* the callback of stmt.run gets an error: the promise rejects
BatchRunFail(r) == At(r, "batch", "run") /\ Fault(r)

\* lines 1563-1566
BatchCommit(r) ==
    /\ At(r, "batch", "commit")
    /\ IF inTxn
       THEN /\ CommitOk
            /\ req' = [req EXCEPT ![r].pc = "done", ![r].resp = "200",
                                  ![r].committed = TRUE]
       ELSE /\ Goto(r, "catch")
            /\ UNCHANGED <<db, snapshot, inTxn, timers, clock, ran>>
    /\ UNCHANGED <<uncaught, ops, faults, timers, clock, ran>>

\* lines 1568-1571
BatchCatch(r) ==
    /\ At(r, "batch", "catch")
    /\ IF inTxn
       THEN /\ RollbackOk
            /\ req' = [req EXCEPT ![r].pc = "done", ![r].resp = "500"]
            /\ UNCHANGED uncaught
       ELSE /\ req' = [req EXCEPT ![r].pc = "done", ![r].resp = "none"]
            /\ uncaught' = TRUE
            /\ UNCHANGED <<db, snapshot, inTxn, timers, clock, ran>>
    /\ UNCHANGED <<ops, faults, timers, clock, ran>>

Batch(r) == BatchBegin(r) \/ BatchRun(r) \/ BatchCommit(r) \/ BatchCatch(r)

\* ============================================ POST /sessions/:sessionId/time
\* (server_backup_before_simulados.js, lines 2145-2182)
\* "UPDATE study_sessions SET time_studied_seconds =
\*  COALESCE(time_studied_seconds, 0) + ? WHERE id = ?"
\* variant: recording time also moves the session to the next day
AddStudyTimeMut(d, seconds, sessionId) ==
    [d EXCEPT !.sessions =
        {IF s.id = sessionId THEN [s EXCEPT !.time_studied_seconds = @ + seconds,
                                            !.session_date = @ + 1]
         ELSE s : s \in @}]

AddStudyTime(d, seconds, sessionId) ==
    [d EXCEPT !.sessions =
        {IF s.id = sessionId THEN [s EXCEPT !.time_studied_seconds = @ + seconds]
         ELSE s : s \in @}]

TimeInputs == {[user |-> 1, sessionId |-> 1, seconds |-> 60],
               [user |-> 2, sessionId |-> 3, seconds |-> 0],
               [user |-> 2, sessionId |-> 1, seconds |-> 60]}

TimeArrives(r) ==
    /\ Arrive(r, "time", "select")
    /\ \E in \in TimeInputs :
          req' = [req EXCEPT ![r] = [Idle EXCEPT !.kind = "time", !.pc = "select",
                     !.user = in.user, !.sessionId = in.sessionId,
                     !.seconds = in.seconds, !.today = Today, !.pre = db]]

\* lines 2156-2164
TimeSelect(r) ==
    /\ At(r, "time", "select")
    /\ LET session == SelectOwnSession(db, req[r].sessionId, req[r].user)
       IN  req' = [req EXCEPT ![r].session = session,
                      ![r].pc = IF session = <<>> THEN "done" ELSE "update",
                      ![r].resp = IF session = <<>> THEN "404" ELSE "none"]
    /\ UNCHANGED <<db, snapshot, inTxn, uncaught, ops, faults, timers, clock, ran>>

\* lines 2166-2175
TimeUpdate(r) ==
    /\ At(r, "time", "update")
    /\ db' = AddStudyTime(db, req[r].seconds, req[r].sessionId)
    /\ req' = [req EXCEPT ![r].pc = "done", ![r].resp = "200"]
    /\ UNCHANGED <<snapshot, inTxn, uncaught, ops, faults, timers, clock, ran>>

\* lines 2177-2180: the catch block answers 500, nothing to undo
TimeUpdateFail(r) ==
    /\ At(r, "time", "update")
    /\ faults < MaxFaults
    /\ faults' = faults + 1
    /\ req' = [req EXCEPT ![r].pc = "done", ![r].resp = "500", ![r].faulted = TRUE]
    /\ UNCHANGED <<db, snapshot, inTxn, uncaught, ops, timers, clock, ran>>

Time(r) == TimeSelect(r) \/ TimeUpdate(r)

\* ===================================================== TimerSystem (js/timer.js)
\* (unnamed/part_002)
\* "if(seconds < 10) return;"
SaveThreshold == 10

\* the clock readings the model offers between two clicks
Steps == {5000, 10000}

IsRunning(sessionId) == sessionId \in DOMAIN timers /\ timers[sessionId].isRunning

\* lines 35-44, on the timers object
startTimer(t, sessionId, now) ==
    IF sessionId \notin DOMAIN t
    THEN [s \in DOMAIN t \cup {sessionId} |->
             IF s = sessionId THEN [startTime |-> now, elapsed |-> 0, isRunning |-> TRUE]
             ELSE t[s]]
    ELSE [t EXCEPT ![sessionId].startTime = now - t[sessionId].elapsed,
                   ![sessionId].isRunning = TRUE]

\* lines 60-62: the interval callback of one timer
TimerSystem_update(timer, now) ==
    IF ~timer.isRunning THEN timer
    ELSE [timer EXCEPT !.elapsed = now - timer.startTime]

\* lines 35-44
TimerSystem_start(sessionId) ==
    /\ timers' = startTimer(timers, sessionId, clock)
    /\ ran' = IF IsRunning(sessionId) THEN ran
              ELSE [ran EXCEPT ![sessionId].since = clock]
    /\ UNCHANGED <<db, snapshot, inTxn, req, uncaught, ops, faults, clock>>

\* lines 121-129: times under the threshold are dropped, the others are posted
\* to /sessions/:sessionId/time as the logged-in user
saveTimeToDatabase(r, sessionId, seconds) ==
    IF seconds < SaveThreshold
    THEN UNCHANGED <<req, ops>>
    ELSE /\ ~uncaught
         /\ Quiet
         /\ ops < MaxOps
         /\ ops' = ops + 1
         /\ req' = [req EXCEPT ![r] = [Idle EXCEPT !.kind = "time", !.pc = "select",
                       !.user = 1, !.sessionId = sessionId,
                       !.seconds = seconds, !.today = Today, !.pre = db]]

\* lines 46-53: the elapsed reading of the timer, in whole seconds, is what is saved
TimerSystem_stop(sessionId) ==
    /\ IsRunning(sessionId)
    /\ timers' = [timers EXCEPT ![sessionId].isRunning = FALSE]
    /\ LET seconds == timers[sessionId].elapsed \div 1000
           run == clock - ran[sessionId].since
       IN  /\ saveTimeToDatabase(1, sessionId, seconds)
           /\ ran' = [ran EXCEPT ![sessionId].all = @ + run,
                                 ![sessionId].reported =
                                     IF seconds < SaveThreshold THEN @ ELSE @ + run]
    /\ UNCHANGED <<db, snapshot, inTxn, uncaught, faults, clock>>

\* lines 55-58
TimerSystem_toggle(sessionId) ==
    \/ (~IsRunning(sessionId) /\ TimerSystem_start(sessionId))
    \/ (IsRunning(sessionId) /\ TimerSystem_stop(sessionId))

\* time passes in the browser; the 100 ms interval of every running timer has
\* fired by the new reading (line 43, lines 60-62)
Tick ==
    /\ \E step \in Steps :
          /\ clock + step <= MaxClock
          /\ clock' = clock + step
    /\ timers' = [s \in DOMAIN timers |-> TimerSystem_update(timers[s], clock')]
    /\ UNCHANGED <<db, snapshot, inTxn, req, uncaught, ops, faults, ran>>

\* ================================================= DELETE /topics/:topicId
\* (server.js, lines 539-566)
\* "SELECT t.id FROM topics t JOIN subjects s ON t.subject_id = s.id
\*  JOIN study_plans sp ON s.study_plan_id = sp.id WHERE t.id = ? AND sp.user_id = ?"
SelectOwnTopic(d, topicId, userId) ==
    LET rows == {t \in d.topics :
                    /\ t.id = topicId
                    /\ \E s \in d.subjects :
                          /\ s.id = t.subject_id
                          /\ s.study_plan_id \in DOMAIN d.plans
                          /\ d.plans[s.study_plan_id].user_id = userId}
    IN  IF rows = {} THEN <<>> ELSE <<CHOOSE t \in rows : TRUE>>

\* "DELETE FROM study_sessions WHERE topic_id = ?"
DeleteTopicSessions(d, topicId) ==
    [d EXCEPT !.sessions = {s \in @ : ~SqlEq(s.topic_id, topicId)}]

\* "DELETE FROM topics WHERE id = ?"
DeleteTopicRow(d, topicId) ==
    [d EXCEPT !.topics = {x \in @ : x.id # topicId}]

\* "DELETE FROM subjects WHERE id = ?"
DeleteSubjectRow(d, id) ==
    [d EXCEPT !.subjects = {s \in @ : s.id # id}]

DeleteTopicInputs ==
    {[user |-> 1, topicId |-> 1], [user |-> 1, topicId |-> 3],
     [user |-> 2, topicId |-> 1], [user |-> 1, topicId |-> 5]}

DeleteTopicArrives(r) ==
    /\ Arrive(r, "delete_topic", "select")
    /\ \E in \in DeleteTopicInputs :
          req' = [req EXCEPT ![r] = [Idle EXCEPT !.kind = "delete_topic", !.pc = "select",
                     !.user = in.user, !.topicId = in.topicId, !.today = Today,
                     !.pre = db]]

\* lines 546-552
DeleteTopicSelect(r) ==
    /\ At(r, "delete_topic", "select")
    /\ LET topic == SelectOwnTopic(db, req[r].topicId, req[r].user)
       IN  req' = [req EXCEPT ![r].topic = topic,
                      ![r].pc = IF topic = <<>> THEN "done" ELSE "begin",
                      ![r].resp = IF topic = <<>> THEN "404" ELSE "none"]
    /\ UNCHANGED <<db, snapshot, inTxn, uncaught, ops, faults, timers, clock, ran>>

\* line 554
DeleteTopicBegin(r) ==
    /\ At(r, "delete_topic", "begin")
    /\ IF CanBegin
       THEN /\ inTxn' = TRUE /\ snapshot' = db
            /\ Goto(r, "sessions")
       ELSE UNCHANGED <<inTxn, snapshot, timers, clock, ran>> /\ Goto(r, "catch")
    /\ UNCHANGED <<db, uncaught, ops, faults, timers, clock, ran>>

\* line 555
DeleteTopicSessionsRun(r) ==
    /\ At(r, "delete_topic", "sessions")
    /\ db' = DeleteTopicSessions(db, req[r].topicId)
    /\ Goto(r, "topic")
    /\ UNCHANGED <<snapshot, inTxn, uncaught, ops, faults, timers, clock, ran>>

\* line 556
DeleteTopicRun(r) ==
    /\ At(r, "delete_topic", "topic")
    /\ db' = DeleteTopicRow(db, req[r].topicId)
    /\ Goto(r, "subject")
    /\ UNCHANGED <<snapshot, inTxn, uncaught, ops, faults, timers, clock, ran>>

DeleteTopicRunFail(r) == At(r, "delete_topic", "topic") /\ Fault(r)

\* line 557: the subjects statement is given the topic's id
DeleteTopicSubjectRun(r) ==
    /\ At(r, "delete_topic", "subject")
    /\ db' = DeleteSubjectRow(db, req[r].topicId)
    /\ Goto(r, "commit")
    /\ UNCHANGED <<snapshot, inTxn, uncaught, ops, faults, timers, clock, ran>>

\* lines 558-559
DeleteTopicCommit(r) ==
    /\ At(r, "delete_topic", "commit")
    /\ IF inTxn
       THEN /\ CommitOk
            /\ req' = [req EXCEPT ![r].pc = "done", ![r].resp = "200",
                                  ![r].committed = TRUE]
       ELSE /\ Goto(r, "catch")
            /\ UNCHANGED <<db, snapshot, inTxn, timers, clock, ran>>
    /\ UNCHANGED <<uncaught, ops, faults, timers, clock, ran>>

\* lines 560-564
DeleteTopicCatch(r) ==
    /\ At(r, "delete_topic", "catch")
    /\ IF inTxn
       THEN /\ RollbackOk
            /\ req' = [req EXCEPT ![r].pc = "done", ![r].resp = "500"]
            /\ UNCHANGED uncaught
       ELSE /\ req' = [req EXCEPT ![r].pc = "done", ![r].resp = "none"]
            /\ uncaught' = TRUE
            /\ UNCHANGED <<db, snapshot, inTxn, timers, clock, ran>>
    /\ UNCHANGED <<ops, faults, timers, clock, ran>>

DeleteTopic(r) ==
    \/ DeleteTopicSelect(r) \/ DeleteTopicBegin(r) \/ DeleteTopicSessionsRun(r)
    \/ DeleteTopicRun(r) \/ DeleteTopicSubjectRun(r)
    \/ DeleteTopicCommit(r) \/ DeleteTopicCatch(r)

\* ============================================================ specifications
\* Spec: requests are served one at a time
Next ==
    \/ (Quiet /\ GenerateArrives(1))
    \/ (Quiet /\ ReplanArrives(1))
    \/ (Quiet /\ PreviewArrives(1))
    \/ (Quiet /\ ReinforceArrives(1))
    \/ (Quiet /\ PostponeArrives(1))
    \/ Generate(1) \/ GenerateFaults(1)
    \/ Replan(1) \/ ReplanFaults(1)
    \/ Preview(1)
    \/ Reinforce(1) \/ ReinforceInsertFail(1)
    \/ Postpone(1)
    \/ (Quiet /\ UpdateArrives(1))
    \/ (Quiet /\ BatchArrives(1))
    \/ (Quiet /\ TimeArrives(1))
    \/ Update(1) \/ UpdateTopicStatusFail(1)
    \/ Batch(1) \/ BatchRunFail(1)
    \/ Time(1) \/ TimeUpdateFail(1)
    \/ (Quiet /\ DeleteTopicArrives(1))
    \/ DeleteTopic(1) \/ DeleteTopicRunFail(1)
    \/ ProcessExit

Spec == Init /\ [][Next]_vars

\* SpecConc: two requests in flight, their steps interleaving at every await
ConcGenerateInputs ==
    {[user |-> 1, planId |-> 1, hours |-> HAll, dur |-> 60],
     [user |-> 1, planId |-> 1, hours |-> HZero, dur |-> 60],
     [user |-> 2, planId |-> 2, hours |-> HAll, dur |-> 60]}

GenerateArrivesConc(r) ==
    /\ req[r].pc = "idle"
    /\ Arrive(r, "generate", "begin")
    /\ \E in \in ConcGenerateInputs :
          req' = [req EXCEPT ![r] = [Idle EXCEPT !.kind = "generate", !.pc = "begin",
                     !.user = in.user, !.planId = in.planId, !.hours = in.hours,
                     !.dur = in.dur, !.has_essay = TRUE, !.today = Today, !.pre = db,
                     !.prior = PriorRun(r)]]

ReplanArrivesConc(r) ==
    /\ req[r].pc = "idle"
    /\ Arrive(r, "replan", "plan")
    /\ \E in \in {[user |-> 1, planId |-> 1], [user |-> 2, planId |-> 2]} :
          req' = [req EXCEPT ![r] = [Idle EXCEPT !.kind = "replan", !.pc = "plan",
                     !.user = in.user, !.planId = in.planId, !.today = Today, !.pre = db]]

NextConc ==
    \/ \E r \in Reqs : GenerateArrivesConc(r) \/ ReplanArrivesConc(r)
    \/ \E r \in Reqs : Generate(r) \/ Replan(r)
    \/ ProcessExit

SpecConc == Init /\ [][NextConc]_vars

\* SpecLong: generate requests against a plan 1 whose exam is far enough away
\* for the recurring phase to reach its maximum
LongExamIn == 70

InitLong ==
    /\ \E tp \in TopicProfiles, essay \in BOOLEAN :
          db = [plans |-> [p \in {1, 2} |->
                              IF p = 1
                              THEN [PlanRow(1, 1, essay) EXCEPT !.exam_date = Today + LongExamIn]
                              ELSE Plan2Row],
                topics |-> tp, subjects |-> InitSubjects, sessions |-> InitSessions,
                lastId |-> 9]
    /\ snapshot = db
    /\ inTxn = FALSE
    /\ req = [r \in Reqs |-> Idle]
    /\ uncaught = FALSE
    /\ ops = 0
    /\ faults = 0
    /\ timers = NoTimers
    /\ clock = 0
    /\ ran = [s \in TimerSessions |-> NotRun]

NextLong ==
    \/ (Quiet /\ GenerateArrives(1))
    \/ Generate(1) \/ GenerateFaults(1)
    \/ ProcessExit

SpecLong == InitLong /\ [][NextLong]_vars

\* SpecTimer: one page with the study timer of session 1, and the server's
\* handler of the times it posts
NextTimer ==
    \/ \E s \in TimerSessions : TimerSystem_start(s) \/ TimerSystem_stop(s) \/ TimerSystem_toggle(s)
    \/ Tick
    \/ Time(1) \/ TimeUpdateFail(1)

SpecTimer == Init /\ [][NextTimer]_vars

\* ==================================================================== claims
\* a generate run whose COMMIT went through; under Spec the store then stays as
\* the run left it until the next request arrives
Committed(r) == req[r].kind = "generate" /\ req[r].committed

\* the run's calendar was computed and stored without a failed write
Stored(r) == Committed(r) /\ ~req[r].faulted /\ Len(req[r].allTopics) > 0

SessionDates(d, planId) == {s.session_date : s \in PlanSessions(d, planId)}

ReviewTypes == {RevisaoType(ReviewOffsets[k]) : k \in 1..Len(ReviewOffsets)}

OffsetOf(type) == CHOOSE days \in {7, 14, 28} : RevisaoType(days) = type

\* C1: after a generate run that commits, no date holds more of the run's
\* sessions than floor(hours(weekday) * 60 / sessionDurationMinutes)
C1_RunWithinCapacity ==
    \A r \in Reqs : Committed(r) =>
        \A d \in SessionDates(db, req[r].planId) :
            SessionCount(db, req[r].planId, d)
                <= (req[r].hours[getDay(d)] * 60) \div req[r].dur

\* C2: in every reachable state no date of a plan holds more stored sessions
\* than floor(hoursForWeekday * 60 / sessionDurationMinutes) of the stored plan
C2_StoredWithinCapacity ==
    \A p \in DOMAIN db.plans : \A d \in SessionDates(db, p) :
        SessionCount(db, p, d)
            <= (db.plans[p].study_hours_per_day[getDay(d)] * 60)
                   \div db.plans[p].session_duration_minutes

\* C3: every session stored by a generate run is dated within [today, examDate]
C3_DatesWithinRange ==
    \A r \in Reqs : Committed(r) =>
        \A s \in PlanSessions(db, req[r].planId) :
            /\ req[r].today <= s.session_date
            /\ s.session_date <= db.plans[req[r].planId].exam_date

C3_Witness ==
    /\ Stored(1)
    /\ \E s \in PlanSessions(db, req[1].planId) : s.session_date = req[1].today
    /\ \E s \in PlanSessions(db, req[1].planId) :
          s.session_date = db.plans[req[1].planId].exam_date

\* the anchor of a topic's reviews: its completion date when it is done, the
\* date of its new-topic session otherwise (NULL when there is neither)
Anchor(d, topic) ==
    IF topic.status = Concluido THEN topic.completion_date
    ELSE LET intro == {s \in d.sessions : s.topic_id = topic.id /\ s.session_type = NovoTopico}
         IN  IF intro = {} THEN NULL ELSE (CHOOSE s \in intro : TRUE).session_date

\* C4: every review of offset k that generate creates is on a Saturday, at
\* least k days after its topic's anchor date and not after the exam date
C4_CascadeLaw ==
    \A r \in Reqs : Committed(r) =>
        \A s \in PlanSessions(db, req[r].planId) : s.session_type \in ReviewTypes =>
            \E t \in db.topics :
                /\ t.id = s.topic_id
                /\ Anchor(db, t) # NULL
                /\ getDay(s.session_date) = 6
                /\ s.session_date >= Anchor(db, t) + OffsetOf(s.session_type)
                /\ s.session_date <= db.plans[req[r].planId].exam_date

C4_Witness ==
    /\ Stored(1)
    /\ \E s1, s2 \in PlanSessions(db, req[1].planId) :
          /\ s1.session_type \in ReviewTypes /\ s2.session_type \in ReviewTypes
          /\ \E t1, t2 \in db.topics :
                /\ t1.id = s1.topic_id /\ t1.status = Concluido
                /\ t2.id = s2.topic_id /\ t2.status = Pendente

NewTopicSessions(d, topicId) ==
    {s \in d.sessions : s.topic_id = topicId /\ s.session_type = NovoTopico}

\* the topics of a plan: a topic belongs to a plan through its subject's row
PlanTopics(d, planId) ==
    {t \in d.topics : /\ t.study_plan_id = planId
                      /\ \E s \in d.subjects : s.id = t.subject_id}

\* C5 as claimed: after a generate run every topic not marked done has exactly
\* one new-topic session and no topic has more than one
C5_ExactlyOneNewTopic ==
    \A r \in Reqs : Stored(r) =>
        \A t \in PlanTopics(db, req[r].planId) :
            /\ Cardinality(NewTopicSessions(db, t.id)) <= 1
            /\ t.status # Concluido => Cardinality(NewTopicSessions(db, t.id)) = 1

\* every Monday-to-Friday date up to the exam date is filled to its capacity
WeekdaysFull(r) ==
    \A d \in req[r].today..db.plans[req[r].planId].exam_date :
        (getDay(d) \in 1..5 /\ req[r].hours[getDay(d)] > 0) =>
            SessionCount(db, req[r].planId, d) >= (req[r].hours[getDay(d)] * 60) \div req[r].dur

\* C5 amended: no topic has more than one new-topic session, a done topic has
\* none, and a topic not marked done has exactly one unless the run filled
\* every Monday-to-Friday date up to the exam date
C5_OneNewTopicUnlessExhausted ==
    \A r \in Reqs : Stored(r) =>
        \A t \in PlanTopics(db, req[r].planId) :
            /\ Cardinality(NewTopicSessions(db, t.id)) <= 1
            /\ t.status = Concluido => NewTopicSessions(db, t.id) = {}
            /\ (t.status # Concluido /\ ~WeekdaysFull(r))
                  => Cardinality(NewTopicSessions(db, t.id)) = 1

C5_Witness ==
    /\ Stored(1)
    /\ \E t1, t2 \in PlanTopics(db, req[1].planId) :
          /\ t1.status = Pendente /\ t1.priority > 1
          /\ Cardinality(NewTopicSessions(db, t1.id)) = 1
          /\ t2.status = Pendente /\ NewTopicSessions(db, t2.id) = {}

\* a finished generate request on an existing plan with a zero-hours map, none
\* of whose writes failed
ZeroHoursRun(r) ==
    /\ req[r].kind = "generate" /\ req[r].pc = "done" /\ ~req[r].faulted
    /\ \A d \in 0..6 : req[r].hours[d] = 0
    /\ req[r].planId \in DOMAIN req[r].pre.plans

\* C6: a generate request whose hours map totals zero answers with the
\* configuration error and leaves stored sessions and settings as they were
C6_ZeroHoursRefused ==
    ZeroHoursRun(1) =>
        /\ req[1].resp = "400"
        /\ db.sessions = req[1].pre.sessions
        /\ db.plans = req[1].pre.plans

C6_Witness ==
    /\ ZeroHoursRun(1)
    /\ req[1].resp = "400"
    /\ PlanSessions(db, req[1].planId) # {}

\* C7: a generate request for a plan that is absent or owned by another
\* account is refused and changes no session and no setting
C7_ForeignPlanUntouched ==
    \A r \in Reqs :
        ( /\ req[r].kind = "generate" /\ req[r].pc = "done" /\ ~req[r].faulted
          /\ \/ req[r].planId \notin DOMAIN req[r].pre.plans
             \/ req[r].pre.plans[req[r].planId].user_id # req[r].user )
        => /\ req[r].resp \in {"403", "404"}
           /\ db.sessions = req[r].pre.sessions
           /\ db.plans = req[r].pre.plans

\* C8: a generate or replan run one of whose writes failed leaves sessions,
\* settings and postponement counter as before the run and answers with a failure
C8_FailedWriteRollsBack ==
    \A r \in Reqs :
        (req[r].kind \in {"generate", "replan"} /\ req[r].pc = "done" /\ req[r].faulted)
        => /\ req[r].resp = "500"
           /\ db.sessions = req[r].pre.sessions
           /\ db.plans = req[r].pre.plans

\* what a stored row and an agenda entry have in common
RowOf(s) == [topic_id |-> s.topic_id, session_date |-> s.session_date,
             session_type |-> s.session_type]

EntryOf(a) == [topic_id |-> a.topicId, session_date |-> a.date,
               session_type |-> a.sessionType]

\* the stored sessions of the plan are exactly the calendar that run r computed,
\* r being a run that got past the plan lookup and the zero-hours check
IsCalendarOf(d, planId, r) ==
    /\ req[r].plan # <<>> /\ (\E wd \in 0..6 : req[r].hours[wd] > 0)
    /\ Cardinality(PlanSessions(d, planId)) = Len(req[r].agenda)
    /\ {RowOf(s) : s \in PlanSessions(d, planId)}
          = {EntryOf(req[r].agenda[i]) : i \in 1..Len(req[r].agenda)}

\* the stored sessions of the plan are those stored when request r arrived
IsPriorOf(d, planId, r) == PlanSessions(d, planId) = PlanSessions(req[r].pre, planId)

\* C9: when two generate requests for the same plan have run concurrently, the
\* stored calendar of the plan is the calendar computed by one of the two runs
\* (or the prior calendar when neither committed), never a merge
C9_NoMergedCalendar ==
    ( /\ \A r \in Reqs : req[r].kind = "generate" /\ req[r].pc = "done"
      /\ req[1].planId = req[2].planId )
    => \E r \in Reqs : \/ IsCalendarOf(db, req[r].planId, r)
                       \/ IsPriorOf(db, req[r].planId, r)

\* C10: when a generate run on plan A and a run on another plan B have both
\* finished, the sessions of A are the calendar the run on A computed or the
\* ones stored before it, whatever the run on B did
C10_PlansIsolated ==
    \A r \in Reqs :
        ( /\ req[r].kind = "generate" /\ req[r].pc = "done"
          /\ \E o \in Reqs \ {r} : /\ req[o].kind \in {"generate", "replan"}
                                   /\ req[o].pc = "done"
                                   /\ req[o].planId # req[r].planId )
        => \/ IsCalendarOf(db, req[r].planId, r)
           \/ IsPriorOf(db, req[r].planId, r)

\* the number of sessions of a type that a topic has
TypeCount(d, topicId, type) ==
    Cardinality({s \in d.sessions : s.topic_id = topicId /\ s.session_type = type})

TopicSessionTypes == {NovoTopico, ReforcoExtra} \cup ReviewTypes

\* C11: a generate run that directly follows a generate run with the same
\* inputs leaves every topic with the same number of sessions of every type
C11_GenerateIdempotent ==
    \A r \in Reqs :
        ( /\ Stored(r) /\ req[r].prior # <<>>
          /\ req[r].prior[1] = [user |-> req[r].user, planId |-> req[r].planId,
                                hours |-> req[r].hours, dur |-> req[r].dur,
                                today |-> req[r].today] )
        => \A t \in PlanTopics(db, req[r].planId) : \A type \in TopicSessionTypes :
              TypeCount(db, t.id, type) = TypeCount(req[r].pre, t.id, type)

\* C12: from its arrival to its response a replan-preview request leaves every
\* stored row (plans, topics, sessions, postponement counters) as it found it
C12_PreviewReadsOnly ==
    \A r \in Reqs : req[r].kind = "preview" => db = req[r].pre

C12_Witness ==
    \E r \in Reqs :
        /\ req[r].kind = "preview" /\ req[r].pc = "done" /\ req[r].resp = "200"
        /\ req[r].hasOverdue /\ Len(req[r].fullPreview) > 1
        /\ \E i \in 1..Len(req[r].fullPreview) :
              req[r].fullPreview[i].newDate # req[r].fullPreview[i].originalDate

SessionById(d, id) == CHOOSE s \in d.sessions : s.id = id

\* a replan request that committed and answered
Replanned(r) ==
    /\ req[r].kind = "replan" /\ req[r].pc = "done"
    /\ req[r].committed /\ req[r].resp = "200"

\* C13: when a replan commit directly follows a preview of the same plan, every
\* session of the preview is stored on the date the preview gave for it
C13_CommitMatchesPreview ==
    \A r \in Reqs : Replanned(r) =>
        \A i \in 1..Len(req[r].previewed) :
            SessionById(db, req[r].previewed[i].sessionId).session_date
                = req[r].previewed[i].newDate

\* C14: a replan request that answers with success has raised the plan's
\* postponement counter by exactly one, whatever the number of overdue sessions
C14_CounterPlusOne ==
    \A r \in Reqs :
        (req[r].kind = "replan" /\ req[r].pc = "done" /\ req[r].resp = "200") =>
            db.plans[req[r].planId].postponement_count
                = req[r].pre.plans[req[r].planId].postponement_count + 1

\* (original date, id) order
DateIdBefore(date1, id1, date2, id2) ==
    date1 < date2 \/ (date1 = date2 /\ id1 < id2)

\* the entries of a preview are in (original date, id) order and their new
\* dates never decrease
PreviewInOrder(r) ==
    \A i, j \in 1..Len(req[r].fullPreview) : i < j =>
        /\ DateIdBefore(req[r].fullPreview[i].originalDate, req[r].fullPreview[i].sessionId,
                        req[r].fullPreview[j].originalDate, req[r].fullPreview[j].sessionId)
        /\ req[r].fullPreview[i].newDate <= req[r].fullPreview[j].newDate

\* the sessions a replan has moved so far were taken in (original date, id)
\* order and their stored dates never decrease in that order
CommitInOrder(r) ==
    /\ \A i, j \in 1..Len(req[r].overdue) : i < j =>
          DateIdBefore(req[r].overdue[i].session_date, req[r].overdue[i].id,
                       req[r].overdue[j].session_date, req[r].overdue[j].id)
    /\ \A i, j \in 1..req[r].moved : i < j =>
          SessionById(db, req[r].overdue[i].id).session_date
              <= SessionById(db, req[r].overdue[j].id).session_date

\* C15: preview and commit both take the overdue sessions in (original date,
\* id) order and give them dates that never decrease along that order
C15_OrderedRedistribution ==
    \A r \in Reqs :
        /\ req[r].kind = "preview" => PreviewInOrder(r)
        /\ (req[r].kind = "replan" /\ ~req[r].faulted) => CommitInOrder(r)

C15_Witness ==
    \E r \in Reqs :
        /\ Replanned(r) /\ req[r].moved >= 4
        /\ Len(req[r].previewed) >= 4
        /\ \E i, j \in 1..req[r].moved :
              /\ req[r].overdue[i].session_date < req[r].overdue[j].session_date
              /\ req[r].overdue[i].id > req[r].overdue[j].id
              /\ SessionById(db, req[r].overdue[i].id).session_date
                    < SessionById(db, req[r].overdue[j].id).session_date

\* the overdue pending sessions of the previewed plan for which the simulation
\* found a date
Placeable(r) == {req[r].fullPreview[i].sessionId : i \in 1..Len(req[r].fullPreview)}

\* C16: the response of a preview lists one entry for every overdue session that
\* got a date, and totalToReplan is the number of entries listed
C16_PreviewListsAll ==
    \A r \in Reqs :
        (req[r].kind = "preview" /\ req[r].pc = "done" /\ req[r].hasOverdue) =>
            /\ {req[r].replanPreview[i].sessionId : i \in 1..Len(req[r].replanPreview)}
                  = Placeable(r)
            /\ req[r].totalToReplan = Len(req[r].replanPreview)

\* the run found no date before the exam for the new-topic session of some
\* pending topic
RanShort(r) ==
    \E i \in 1..Len(req[r].allTopics) :
        /\ IsPending(req[r].allTopics[i])
        /\ \A k \in 1..Len(req[r].agenda) :
              ~(/\ req[r].agenda[k].topicId = req[r].allTopics[i].id
                /\ req[r].agenda[k].sessionType = NovoTopico)

\* C17: a generate run that ran out of capacity and committed what it placed
\* answers with success, the rows persisted being the sessions it computed
C17_ExhaustedRunSucceeds ==
    \A r \in Reqs :
        (Stored(r) /\ req[r].pc = "done" /\ RanShort(r)) =>
            /\ req[r].resp = "200"
            /\ Cardinality(PlanSessions(db, req[r].planId)) = Len(req[r].agenda)

\* the sessions stored on another date than before the request
DateChanged(r) ==
    {s \in req[r].pre.sessions :
        \E s2 \in db.sessions : s2.id = s.id /\ s2.session_date # s.session_date}

\* C18: the number in the message of a successful replan is the number of
\* sessions whose date the run changed
C18_ReportedEqualsMoved ==
    \A r \in Reqs : Replanned(r) => req[r].count = Cardinality(DateChanged(r))

\* the ids of the sessions that a status-changing request names
Targets(r) ==
    IF req[r].kind = "update" THEN {req[r].sessionId}
    ELSE {req[r].sessions[i].id : i \in 1..Len(req[r].sessions)}

\* the topic of a 'Novo Tópico' session follows the change of the session's
\* status from before request r to now
TopicFollows(r, s, s2) ==
    \A t \in db.topics : t.id = s.topic_id =>
        /\ (s.status = Pendente /\ s2.status = Concluido)
              => (t.status = Concluido /\ t.completion_date # NULL)
        /\ (s.status = Concluido /\ s2.status = Pendente)
              => (t.status = Pendente /\ t.completion_date = NULL)

\* a topic that request r changed has a 'Novo Tópico' session named by r
OnlyNewTopicSessionsReach(r) ==
    \A t \in db.topics : t \notin req[r].pre.topics =>
        \E s \in db.sessions : /\ s.id \in Targets(r) /\ s.topic_id = t.id
                                /\ s.session_type = NovoTopico

DatesKept(r) ==
    \A s \in req[r].pre.sessions : \A s2 \in db.sessions :
        s2.id = s.id => s2.session_date = s.session_date

\* C20: a session update, a batch status update, a study-time recording and a
\* reinforce request leave the date of every existing session as it was
C20_DatesKept ==
    \A r \in Reqs :
        req[r].kind \in {"update", "batch", "time", "reinforce"} => DatesKept(r)

C20_Witness ==
    \E r \in Reqs :
        /\ req[r].kind = "time" /\ req[r].pc = "done" /\ req[r].resp = "200"
        /\ \E s \in db.sessions : s.id = req[r].sessionId /\ s.time_studied_seconds > 0
        /\ \E s \in db.sessions : s.session_type = ReforcoExtra
        /\ db.sessions # req[r].pre.sessions

\* the dates from a given date up to the plan's exam date on which the plan
\* allots study time
StudyDatesFrom(plan, from) ==
    {d \in from..plan.exam_date : plan.study_hours_per_day[getDay(d)] > 0}

\* the first of them (only asked for when there is one)
FirstStudyDate(plan, from) ==
    CHOOSE d \in StudyDatesFrom(plan, from) : \A e \in StudyDatesFrom(plan, from) : d <= e

\* the date from which a postpone request searches
PostponeFrom(r) ==
    SessionById(req[r].pre, req[r].sessionId).session_date
        + (IF req[r].next THEN 1 ELSE req[r].days)

\* C21: a postpone request by the plan's owner moves that session, and no other,
\* to the first date with study time on or after its date + N (+ 1 for "next"),
\* later than the old date and not after the exam date; without such a date it
\* fails and the store is unchanged
C21_PostponeLandsOnNextStudyDate ==
    \A r \in Reqs :
        (req[r].kind = "postpone" /\ req[r].pc = "done" /\ req[r].plan # <<>>) =>
            LET plan == req[r].plan[1]
                old == SessionById(req[r].pre, req[r].sessionId)
            IN  IF StudyDatesFrom(plan, PostponeFrom(r)) = {}
                THEN req[r].resp = "400" /\ db = req[r].pre
                ELSE /\ req[r].resp = "200"
                     /\ db.sessions = (req[r].pre.sessions \ {old}) \cup
                           {[old EXCEPT !.session_date = FirstStudyDate(plan, PostponeFrom(r))]}
                     /\ FirstStudyDate(plan, PostponeFrom(r)) > old.session_date
                     /\ FirstStudyDate(plan, PostponeFrom(r)) <= plan.exam_date

\* the session named by a reinforce request, as stored when the request arrived
\* (the empty set when there is none)
Original(r) == {s \in req[r].pre.sessions : s.id = req[r].sessionId}

\* the caller owns it and it references a topic
Reinforceable(r) ==
    \E s \in Original(r) :
        /\ s.study_plan_id \in DOMAIN req[r].pre.plans
        /\ req[r].pre.plans[s.study_plan_id].user_id = req[r].user
        /\ s.topic_id # NULL

\* C22: a reinforce request for an own session with a topic adds exactly one
\* pending 'Reforço Extra' session dated today + 3 in the same plan with the
\* topic, subject name and topic description of the original and changes no
\* existing row; any other reinforce request leaves the store as it was
C22_ReinforceAddsOneFollowUp ==
    \A r \in Reqs :
        (req[r].kind = "reinforce" /\ req[r].pc = "done" /\ ~req[r].faulted) =>
            IF Reinforceable(r)
            THEN /\ req[r].pre.sessions \subseteq db.sessions
                 /\ Cardinality(db.sessions \ req[r].pre.sessions) = 1
                 /\ \A n \in db.sessions \ req[r].pre.sessions : \A s \in Original(r) :
                       /\ n.session_type = ReforcoExtra /\ n.status = Pendente
                       /\ n.session_date = req[r].today + 3
                       /\ n.study_plan_id = s.study_plan_id
                       /\ n.topic_id = s.topic_id
                       /\ n.subject_name = s.subject_name
                       /\ n.topic_description = s.topic_description
                       /\ n.id \notin {x.id : x \in req[r].pre.sessions}
                 /\ db.plans = req[r].pre.plans /\ db.topics = req[r].pre.topics
            ELSE db = req[r].pre

C22_Witness ==
    \E r \in Reqs :
        /\ req[r].kind = "reinforce" /\ req[r].pc = "done" /\ req[r].resp = "201"
        /\ Reinforceable(r)
        /\ \E n \in db.sessions \ req[r].pre.sessions :
              n.session_type = ReforcoExtra /\ n.topic_description = "T1"

MockTypes == {SimuladoDirecionado, SimuladoCompleto}

\* the agenda of run r holds a session of one of the given types
AgendaHas(r, types) ==
    \E k \in 1..Len(req[r].agenda) : req[r].agenda[k].sessionType \in types

\* the ids of the stored mock-exam sessions
MockIds(d) == {s.id : s \in {x \in d.sessions : x.session_type \in MockTypes}}

\* C23: a generate run whose agenda holds a mock-exam session read no pending
\* topic and its agenda holds no 'Novo Tópico' session; the calendar it stores
\* never holds both kinds; no other request adds a mock-exam session
C23_MocksOnlyWithoutPending ==
    \A r \in Reqs :
        /\ (req[r].kind = "generate" /\ AgendaHas(r, MockTypes)) =>
              /\ \A i \in 1..Len(req[r].allTopics) : req[r].allTopics[i].status = Concluido
              /\ ~AgendaHas(r, {NovoTopico})
        /\ Stored(r) =>
              ~(/\ \E s \in PlanSessions(db, req[r].planId) : s.session_type = NovoTopico
                /\ \E s \in PlanSessions(db, req[r].planId) : s.session_type \in MockTypes)
        /\ (req[r].kind \notin {"none", "generate"}) => MockIds(db) \subseteq MockIds(req[r].pre)

C23_Witness ==
    \E r \in Reqs :
        /\ Stored(r) /\ AgendaHas(r, {SimuladoDirecionado}) /\ AgendaHas(r, {SimuladoCompleto})
        /\ \E s \in PlanSessions(db, req[r].planId) : s.session_type = SimuladoDirecionado

\* the topics that run r read as done
DoneTopics(r) ==
    {i \in 1..Len(req[r].allTopics) : req[r].allTopics[i].status = Concluido}

\* the agenda entries of run r that are the basic full mock
BasicMocks(r) ==
    {k \in 1..Len(req[r].agenda) : /\ req[r].agenda[k].sessionType = SimuladoCompleto
                                    /\ req[r].agenda[k].topicDescription = BasicText}

\* C24: a generate run whose agenda holds the basic full mock read at least
\* three done topics
C24_BasicMockNeedsThreeDone ==
    \A r \in Reqs :
        (req[r].kind = "generate" /\ BasicMocks(r) # {}) => Cardinality(DoneTopics(r)) >= 3

\* the dates of the agenda entries of run r with the given type
DatesOfType(r, type) ==
    {req[r].agenda[k].date : k \in {j \in 1..Len(req[r].agenda) :
                                       req[r].agenda[j].sessionType = type}}

\* the dates from a given date up to the exam date that have study time and
\* room left beside the essay and review sessions of run r
RoomFrom(r, from) ==
    {d \in from..req[r].plan[1].exam_date :
        /\ req[r].hours[getDay(d)] > 0
        /\ Cardinality({k \in 1..Len(req[r].agenda) :
                            /\ req[r].agenda[k].date = d
                            /\ req[r].agenda[k].sessionType \notin MockTypes})
              < (req[r].hours[getDay(d)] * 60) \div req[r].dur}

\* C25 (no new-topic session scheduled): maintenance start is today and the
\* directed-mock search starts there, so the earliest directed mock of the run
\* is on the first date from today on that has room
C25_DirectedMocksStartToday ==
    \A r \in Reqs :
        ( /\ req[r].kind = "generate" /\ ~AgendaHas(r, {NovoTopico})
          /\ DatesOfType(r, SimuladoDirecionado) # {} ) =>
            \A d \in DatesOfType(r, SimuladoDirecionado) :
                (\A e \in DatesOfType(r, SimuladoDirecionado) : d <= e) =>
                    /\ d \in RoomFrom(r, req[r].today)
                    /\ \A e \in RoomFrom(r, req[r].today) : d <= e

\* run r has read its topics and built its agenda
Scheduled(r) ==
    /\ req[r].kind = "generate" /\ req[r].pc \in {"insert", "commit"}
    /\ Len(req[r].allTopics) > 0

\* the subjects of the topics run r read
SubjectsRead(r) == {req[r].allTopics[i].subject_name : i \in 1..Len(req[r].allTopics)}

\* the number of done topics of a subject among the topics run r read
DoneOf(r, subjectName) ==
    Cardinality({i \in DoneTopics(r) : req[r].allTopics[i].subject_name = subjectName})

\* the agenda entries of run r that are directed mocks of a subject
DirectedFor(r, subjectName) ==
    {k \in 1..Len(req[r].agenda) :
        /\ req[r].agenda[k].sessionType = SimuladoDirecionado
        /\ req[r].agenda[k].subjectName = "Simulado Direcionado - " \o subjectName}

\* the date from which the directed phase of run r would search for one more
\* slot: 3 days after its last directed mock, or the day after today
NextDirectedFrom(r) ==
    IF DatesOfType(r, SimuladoDirecionado) = {} THEN req[r].today + 1
    ELSE (CHOOSE d \in DatesOfType(r, SimuladoDirecionado) :
              \A e \in DatesOfType(r, SimuladoDirecionado) : e <= d) + DirectedGap

\* a slot remains for one more directed mock: a date up to the exam date with
\* study time and fewer essay, review and directed-mock sessions than it can hold
DirectedSlotRemains(r) ==
    \E d \in NextDirectedFrom(r)..req[r].plan[1].exam_date :
        /\ req[r].hours[getDay(d)] > 0
        /\ Cardinality({k \in 1..Len(req[r].agenda) :
                            /\ req[r].agenda[k].date = d
                            /\ req[r].agenda[k].sessionType # SimuladoCompleto})
              < (req[r].hours[getDay(d)] * 60) \div req[r].dur

\* C26: in a run whose topics are all marked done, a subject with n >= 2 done
\* topics gets ceil(n / 4) directed mocks (fewer only when no slot remains) and
\* a subject with fewer than 2 done topics gets none
C26_DirectedMocksPerSubject ==
    \A r \in Reqs :
        (Scheduled(r) /\ Cardinality(DoneTopics(r)) = Len(req[r].allTopics)) =>
            \A s \in SubjectsRead(r) :
                LET n == DoneOf(r, s)
                    placed == Cardinality(DirectedFor(r, s))
                IN  IF n < 2 THEN placed = 0
                    ELSE \/ placed = (n + 3) \div 4
                         \/ placed < (n + 3) \div 4 /\ ~DirectedSlotRemains(r)

\* the same, for runs whose done topics all carry a completion date
DirectedMocksWhenDated ==
    \A r \in Reqs :
        ( /\ Scheduled(r) /\ Cardinality(DoneTopics(r)) = Len(req[r].allTopics)
          /\ \A i \in DoneTopics(r) : req[r].allTopics[i].completion_date # NULL ) =>
            \A s \in SubjectsRead(r) :
                LET n == DoneOf(r, s)
                    placed == Cardinality(DirectedFor(r, s))
                IN  IF n < 2 THEN placed = 0
                    ELSE \/ placed = (n + 3) \div 4
                         \/ placed < (n + 3) \div 4 /\ ~DirectedSlotRemains(r)

\* the agenda entries of run r that are recurring full mocks
RecurringMocks(r) ==
    {k \in 1..Len(req[r].agenda) : /\ req[r].agenda[k].sessionType = SimuladoCompleto
                                    /\ req[r].agenda[k].topicDescription = RecurringText}

RecurringDates(r) == {req[r].agenda[k].date : k \in RecurringMocks(r)}

\* the topics run r read are all done with a completion date: its mock phases ran
PhasesRan(r) ==
    /\ Scheduled(r)
    /\ \A i \in 1..Len(req[r].allTopics) :
          /\ req[r].allTopics[i].status = Concluido
          /\ req[r].allTopics[i].completion_date # NULL

\* the date from which the recurring phase of run r would search for one more
\* slot: 3 days after its last mock, or 5 days after the day after today
NextRecurringFrom(r) ==
    IF RecurringDates(r) = {} THEN req[r].today + 1 + RecurringDelay
    ELSE (CHOOSE d \in RecurringDates(r) : \A e \in RecurringDates(r) : e <= d)
             + SimuladoFrequency

\* a date from the given one up to the exam date has study time and fewer
\* sessions than it can hold
SlotRemains(r, from) ==
    \E d \in from..req[r].plan[1].exam_date :
        /\ req[r].hours[getDay(d)] > 0
        /\ Cardinality({k \in 1..Len(req[r].agenda) : req[r].agenda[k].date = d})
              < (req[r].hours[getDay(d)] * 60) \div req[r].dur

\* C27: a run places at most 20 recurring full mocks, each on its own date up
\* to the exam date, the first at least 5 days after maintenance start (the day
\* after today in such a run), any two at least 3 days apart; and it places
\* fewer than 20 only when no slot remains 3 days after the last one
C27_RecurringMocksBounded ==
    \A r \in Reqs :
        Scheduled(r) =>
            /\ Cardinality(RecurringMocks(r)) <= 20
            /\ Cardinality(RecurringDates(r)) = Cardinality(RecurringMocks(r))
            /\ \A d \in RecurringDates(r) :
                  /\ d >= req[r].today + 1 + 5
                  /\ d <= req[r].plan[1].exam_date
                  /\ \A e \in RecurringDates(r) : d < e => e - d >= 3
            /\ (PhasesRan(r) /\ Cardinality(RecurringMocks(r)) < 20) =>
                  ~SlotRemains(r, NextRecurringFrom(r))
            /\ ~PhasesRan(r) => RecurringMocks(r) = {}

\* a run stopped at the 20th recurring mock although a slot remained
C27_Witness ==
    \E r \in Reqs :
        /\ PhasesRan(r) /\ Cardinality(RecurringMocks(r)) = 20
        /\ SlotRemains(r, NextRecurringFrom(r))

\* list is in ascending date order without repeats, holds exactly the dates of
\* [start, end] with study time (Saturdays and Sundays left out when
\* weekdayOnly), and each entry's maxSessions is floor(hours * 60 / dur)
IsAvailableDates(list, start, end, weekdayOnly, hours, dur) ==
    /\ \A i \in 1..(Len(list) - 1) : list[i].date < list[i + 1].date
    /\ {list[i].date : i \in 1..Len(list)} =
          {d \in start..end : /\ hours[d % 7] > 0
                              /\ weekdayOnly => d % 7 \notin {0, 6}}
    /\ \A i \in 1..Len(list) :
          /\ list[i].dayOfWeek = list[i].date % 7
          /\ list[i].maxSessions * dur <= hours[list[i].dayOfWeek] * 60
          /\ hours[list[i].dayOfWeek] * 60 < (list[i].maxSessions + 1) * dur

\* the planning state before any call
FreshState == [agenda |-> <<>>, cache |-> EmptyCache]

\* the planning context of run r
ContextOf(r) ==
    [hours |-> req[r].hours, dur |-> req[r].dur,
     examDate |-> req[r].plan[1].exam_date, today |-> req[r].today]

\* 4 hours on every day but Sunday
ScenarioHours == [d \in 0..6 |-> IF d = 0 THEN 0 ELSE 4]

\* C28: with the settings of a run, getAvailableDates returns for every start
\* date and either flag the dates of [start, exam date] with study time, in
\* ascending order, each once, with maxSessions = floor(hours * 60 / dur); the
\* lists a run without recurring mocks left in its cache are such lists; and
\* 4 hours with 50-minute sessions give maxSessions 4 and no Sunday
C28_AvailableDates ==
    \A r \in Reqs :
        Scheduled(r) =>
            /\ \A start \in req[r].today..(req[r].plan[1].exam_date + 1) :
                  \A weekdayOnly \in BOOLEAN :
                     IsAvailableDates(
                        getAvailableDates(FreshState, ContextOf(r), start, weekdayOnly),
                        start, req[r].plan[1].exam_date, weekdayOnly,
                        req[r].hours, req[r].dur)
            /\ RecurringMocks(r) = {} =>
                  \A key \in DOMAIN req[r].cache :
                     IsAvailableDates(req[r].cache[key], key[1], req[r].plan[1].exam_date,
                                      key[2], req[r].hours, req[r].dur)
            /\ LET list == getAvailableDates(FreshState,
                               [ContextOf(r) EXCEPT !.hours = ScenarioHours, !.dur = 50],
                               req[r].today, FALSE)
               IN  /\ Len(list) > 0
                   /\ \A i \in 1..Len(list) :
                         list[i].maxSessions = 4 /\ list[i].dayOfWeek # 0

\* a run with 90-minute sessions cached a list that leaves out the days without
\* study time and holds a Sunday of 1 hour with maxSessions 0
C28_Witness ==
    \E r \in Reqs :
        /\ Scheduled(r) /\ req[r].dur = 90 /\ RecurringMocks(r) = {}
        /\ \E key \in DOMAIN req[r].cache :
              /\ Len(req[r].cache[key]) < req[r].plan[1].exam_date - key[1] + 1
              /\ \E i \in 1..Len(req[r].cache[key]) :
                    /\ req[r].cache[key][i].dayOfWeek = 0
                    /\ req[r].cache[key][i].maxSessions = 0

\* the rows a run writes for its agenda, in the order of the batch
RowsOf(r) == sessionsToCreate(req[r].agenda)

\* C29: after a generate run has committed, the sessions stored for its plan
\* are one row per agenda entry of the run, with the entry's topic, subject,
\* description, date and type; none of them existed before the run; and all
\* have status pending
C29_StoredIsAgenda ==
    \A r \in Reqs :
        Committed(r) =>
            LET stored == PlanSessions(db, req[r].planId)
                before == {s.id : s \in req[r].pre.sessions}
            IN  /\ Cardinality(stored) = Len(RowsOf(r))
                /\ \A i \in 1..Len(RowsOf(r)) :
                      \E s \in stored :
                         /\ s.id = req[r].pre.lastId + i
                         /\ s.topic_id = RowsOf(r)[i].topicId
                         /\ s.subject_name = RowsOf(r)[i].subjectName
                         /\ s.topic_description = RowsOf(r)[i].topicDescription
                         /\ s.session_date = RowsOf(r)[i].date
                         /\ s.session_type = RowsOf(r)[i].sessionType
                /\ \A s \in stored : s.id \notin before /\ s.status = Pendente

\* a run committed a non-empty calendar for a plan that held a done session
\* or a reinforcement session before it
C29_Witness ==
    \E r \in Reqs :
        /\ Committed(r) /\ Len(req[r].agenda) > 0
        /\ \E s \in PlanSessions(req[r].pre, req[r].planId) :
              s.status = Concluido \/ s.session_type = ReforcoExtra

\* the Sundays from today to the exam date of the replanned plan that have
\* study time and, as stored now, fewer sessions than they can hold
FreeSundays(r) ==
    LET plan == db.plans[req[r].planId]
    IN  {d \in req[r].today..plan.exam_date :
            /\ getDay(d) = 0
            /\ plan.study_hours_per_day[0] > 0
            /\ SessionCount(db, req[r].planId, d)
                  < (plan.study_hours_per_day[0] * 60) \div plan.session_duration_minutes}

\* C30: a replan commit does not pass over a Sunday that has study time and
\* spare capacity: when such a Sunday is left after the commit, every overdue
\* session has been stored on a date from today up to that Sunday
C30_SundayIsEligible ==
    \A r \in Reqs : Replanned(r) =>
        \A d \in FreeSundays(r) :
            \A i \in 1..Len(req[r].overdue) :
                SessionById(db, req[r].overdue[i].id).session_date \in req[r].today..d

\* the operations that are not a replan commit
CounterKeepers ==
    {"generate", "postpone", "reinforce", "update", "batch", "time", "preview"}

\* C31: from the arrival of a request on, no plan's postponement counter is
\* below its value at the arrival, and while or after a generate, postpone,
\* reinforce, session update or replan preview it equals that value
C31_CounterMonotonic ==
    \A r \in Reqs :
        req[r].kind \in CounterKeepers \cup {"replan"} =>
            \A p \in DOMAIN db.plans :
                /\ db.plans[p].postponement_count
                      >= req[r].pre.plans[p].postponement_count
                /\ req[r].kind \in CounterKeepers =>
                      db.plans[p].postponement_count
                         = req[r].pre.plans[p].postponement_count

\* an operation other than replan has run to its end on a store in which an
\* earlier replan had raised a counter
C31_Witness ==
    \E r \in Reqs :
        /\ req[r].kind \in CounterKeepers /\ req[r].pc = "done"
        /\ \E p \in DOMAIN db.plans : db.plans[p].postponement_count > 0

\* the ids of the overdue sessions that replan run r read
OverdueIds(r) == {req[r].overdue[i].id : i \in 1..Len(req[r].overdue)}

\* C32: after a replan commit the topics are as before, the plans differ from
\* before in the replanned plan's postponement counter alone, and every session
\* is as before except for its date; a date differs only for a session that was
\* pending, of the plan and dated before today, and is then a date from today to
\* the exam date; an overdue session left without a date keeps its own, the
\* request still answering with success
C32_ReplanFrame ==
    \A r \in Reqs : Replanned(r) =>
        /\ db.topics = req[r].pre.topics
        /\ db.lastId = req[r].pre.lastId
        /\ \A p \in DOMAIN db.plans :
              db.plans[p] = [req[r].pre.plans[p] EXCEPT
                                !.postponement_count = db.plans[p].postponement_count]
        /\ \A p \in DOMAIN db.plans \ {req[r].planId} : db.plans[p] = req[r].pre.plans[p]
        /\ {s.id : s \in db.sessions} = {s.id : s \in req[r].pre.sessions}
        /\ Cardinality(db.sessions) = Cardinality(req[r].pre.sessions)
        /\ \A s \in req[r].pre.sessions :
              LET s2 == SessionById(db, s.id)
              IN  /\ s2 = [s EXCEPT !.session_date = s2.session_date]
                  /\ s2.session_date # s.session_date =>
                        /\ s.study_plan_id = req[r].planId
                        /\ s.status = Pendente
                        /\ s.session_date < req[r].today
                        /\ s2.session_date \in
                              req[r].today..db.plans[req[r].planId].exam_date

\* a replan commit moved some overdue sessions and left one on its own date,
\* beside a session of another plan dated today or later
C32_Witness ==
    \E r \in Reqs :
        /\ Replanned(r)
        /\ \E i \in OverdueIds(r) :
              SessionById(db, i).session_date = SessionById(req[r].pre, i).session_date
        /\ \E i \in OverdueIds(r) :
              SessionById(db, i).session_date # SessionById(req[r].pre, i).session_date
        /\ \E s \in db.sessions : s.session_date >= req[r].today /\ s.id \notin OverdueIds(r)

\* the agenda entries of run r that are the review of a topic at an offset
ReviewOf(r, topicId, days) ==
    {j \in 1..Len(req[r].agenda) : /\ req[r].agenda[j].topicId = topicId
                                    /\ req[r].agenda[j].sessionType = RevisaoType(days)}

\* the agenda entries of run r that were added before the review of the i-th
\* completed topic at the k-th offset was looked for: the essays and the
\* reviews of the pairs before (i, k)
AddedBefore(r, done, i, k) ==
    {j \in 1..Len(req[r].agenda) :
        \/ req[r].agenda[j].sessionType = Redacao
        \/ \E i2 \in 1..Len(done), k2 \in 1..3 :
              /\ i2 < i \/ (i2 = i /\ k2 < k)
              /\ j \in ReviewOf(r, done[i2].id, <<7, 14, 28>>[k2])}

\* the Saturdays of [target, exam date] with study time on which fewer of the
\* given agenda entries lie than the day can hold
FreeSaturdays(r, target, entries) ==
    {s \in target..req[r].plan[1].exam_date :
        /\ s % 7 = 6
        /\ req[r].hours[6] > 0
        /\ Cardinality({j \in entries : req[r].agenda[j].date = s})
              < (req[r].hours[6] * 60) \div req[r].dur}

\* C33: for every topic done with completion date c and every offset k of 7, 14
\* and 28 days, the run's agenda holds the review of that type exactly when
\* today <= c + k <= exam date and a Saturday from c + k to the exam date had
\* room at that moment; it is then on the earliest such Saturday
C33_CompletedTopicReviews ==
    \A r \in Reqs : Scheduled(r) =>
        LET done == SelectCompletedTopics(db, req[r].planId)
        IN  \A i \in 1..Len(done), k \in 1..3 :
               LET days == <<7, 14, 28>>[k]
                   target == done[i].completion_date + days
                   free == FreeSaturdays(r, target, AddedBefore(r, done, i, k))
                   mine == ReviewOf(r, done[i].id, days)
               IN  IF /\ req[r].today <= target
                      /\ target <= req[r].plan[1].exam_date
                      /\ free # {}
                   THEN /\ Cardinality(mine) = 1
                        /\ \A j \in mine : /\ req[r].agenda[j].date \in free
                                             /\ \A s \in free : req[r].agenda[j].date <= s
                   ELSE mine = {}

\* a run placed one review of a done topic, dropped another whose target lay
\* before today, and dropped one for want of a free Saturday
C33_Witness ==
    \E r \in Reqs :
        /\ Scheduled(r)
        /\ LET done == SelectCompletedTopics(db, req[r].planId)
           IN  /\ \E i \in 1..Len(done), k \in 1..3 :
                     ReviewOf(r, done[i].id, <<7, 14, 28>>[k]) # {}
               /\ \E i \in 1..Len(done), k \in 1..3 :
                     done[i].completion_date + <<7, 14, 28>>[k] < req[r].today
               /\ \E i \in 1..Len(done), k \in 1..3 :
                     LET target == done[i].completion_date + <<7, 14, 28>>[k]
                     IN  /\ req[r].today <= target /\ target <= req[r].plan[1].exam_date
                         /\ ReviewOf(r, done[i].id, <<7, 14, 28>>[k]) = {}

\* the positions of the new-topic sessions in the agenda of run r
NewTopicEntries(r) ==
    {j \in 1..Len(req[r].agenda) : req[r].agenda[j].sessionType = NovoTopico}

\* the cursor when the new-topic session at position j was looked for: the date
\* of the new-topic session added last before it, today for the first
CursorAt(r, j) ==
    LET earlier == {i \in NewTopicEntries(r) : i < j}
    IN  IF earlier = {} THEN req[r].today
        ELSE req[r].agenda[CHOOSE i \in earlier : \A i2 \in earlier : i2 <= i].date

\* date d is a Monday to Friday with study time that holds fewer of the first
\* j - 1 agenda entries than it can hold
WeekdayRoomAt(r, j, d) ==
    /\ d % 7 \in 1..5
    /\ req[r].hours[d % 7] > 0
    /\ Cardinality({i \in 1..(j - 1) : req[r].agenda[i].date = d})
          < (req[r].hours[d % 7] * 60) \div req[r].dur

\* C34: every new-topic session of a run is on a Monday to Friday with study
\* time, not before the cursor (today, then the date of the previous new-topic
\* session) nor after the exam date, and on the earliest such day from the
\* cursor on that had room when it was added
C34_NewTopicsOnWeekdays ==
    \A r \in Reqs : Scheduled(r) =>
        \A j \in NewTopicEntries(r) :
            LET d == req[r].agenda[j].date
            IN  /\ CursorAt(r, j) <= d /\ d <= req[r].plan[1].exam_date
                /\ WeekdayRoomAt(r, j, d)
                /\ \A e \in CursorAt(r, j)..(d - 1) : ~WeekdayRoomAt(r, j, e)

\* a run placed two new-topic sessions on one day and a third on a later day,
\* passing over a Saturday with study time
C34_Witness ==
    \E r \in Reqs :
        /\ Scheduled(r)
        /\ \E j, k, l \in NewTopicEntries(r) :
              /\ j < k /\ k < l
              /\ req[r].agenda[j].date = req[r].agenda[k].date
              /\ req[r].agenda[k].date < req[r].agenda[l].date
              /\ \E e \in req[r].agenda[k].date..req[r].agenda[l].date :
                    e % 7 = 6 /\ req[r].hours[6] > 0

\* the Monday-to-Friday slots of run r: one pair per session that a weekday
\* from today to the exam date can hold
WeekdaySlots(r) ==
    UNION {{<<d, n>> : n \in 1..((req[r].hours[d % 7] * 60) \div req[r].dur)} :
              d \in {e \in req[r].today..req[r].plan[1].exam_date : e % 7 \in 1..5}}

\* the topics run r read that are not done
PendingRead(r) ==
    {i \in 1..Len(req[r].allTopics) : req[r].allTopics[i].status # Concluido}

\* C35: the number of new-topic sessions of a run is the smaller of its number
\* of pending topics and its number of Monday-to-Friday slots, whatever order
\* the shuffle produced
C35_NewTopicCount ==
    \A r \in Reqs : Scheduled(r) =>
        Cardinality(NewTopicEntries(r)) =
            IF Cardinality(PendingRead(r)) <= Cardinality(WeekdaySlots(r))
            THEN Cardinality(PendingRead(r)) ELSE Cardinality(WeekdaySlots(r))

\* a run had more pending topics than weekday slots and filled every slot
C35_Witness ==
    \E r \in Reqs :
        /\ Scheduled(r)
        /\ Cardinality(WeekdaySlots(r)) > 0
        /\ Cardinality(PendingRead(r)) > Cardinality(WeekdaySlots(r))
        /\ Cardinality(NewTopicEntries(r)) = Cardinality(WeekdaySlots(r))

\* date d of the plan that request r works on can take one more session beside
\* the sessions stored on it when the request arrived and `placed` more: the
\* minutes used plus one session duration do not exceed the day's minutes
FitsOneMore(r, d, placed) ==
    LET plan == req[r].pre.plans[req[r].planId]
    IN  (SessionCount(req[r].pre, req[r].planId, d) + placed)
            * plan.session_duration_minutes + plan.session_duration_minutes
          <= plan.study_hours_per_day[d % 7] * 60

\* dates is the sequence of dates given, in order, to overdue sessions: each is
\* the earliest date from the cursor (today, then the previous date) to the
\* exam date that could take one more session at that moment
PlacedEarliest(r, dates) ==
    \A i \in 1..Len(dates) :
        LET cursor == IF i = 1 THEN req[r].today ELSE dates[i - 1]
            Placed(d) == Cardinality({j \in 1..(i - 1) : dates[j] = d})
        IN  /\ cursor <= dates[i]
            /\ dates[i] <= req[r].pre.plans[req[r].planId].exam_date
            /\ FitsOneMore(r, dates[i], Placed(dates[i]))
            /\ \A e \in cursor..(dates[i] - 1) : ~FitsOneMore(r, e, Placed(e))

\* the dates that a preview gave, in order
PreviewDates(r) == [i \in 1..Len(req[r].fullPreview) |-> req[r].fullPreview[i].newDate]

\* the overdue sessions that a replan commit moved, in the order it read them
MovedInOrder(r) ==
    LET Moved(s) == SessionById(db, s.id).session_date # s.session_date
    IN  SelectSeq(req[r].overdue, Moved)

\* the dates that a replan commit stored, in order
CommitDates(r) ==
    [i \in 1..Len(MovedInOrder(r)) |-> SessionById(db, MovedInOrder(r)[i].id).session_date]

\* the preview places every overdue session on the earliest date that fits
PreviewPlacesEarliest ==
    \A r \in Reqs :
        (req[r].kind = "preview" /\ req[r].pc = "done" /\ req[r].hasOverdue) =>
            PlacedEarliest(r, PreviewDates(r))

\* C36: in the replan preview and in the replan commit alike, every overdue
\* session that is placed goes to the earliest date from the cursor to the exam
\* date on which the sessions already there, those placed earlier in the run
\* included, leave room for one more session duration
C36_RedistributionPlacesEarliest ==
    /\ PreviewPlacesEarliest
    /\ \A r \in Reqs : Replanned(r) => PlacedEarliest(r, CommitDates(r))

\* C37: at the end of the scheduling phases of a run, every list in its
\* availability cache is the list that a fresh computation for the key returns
C37_CacheEntriesKept ==
    \A r \in Reqs : Scheduled(r) =>
        \A key \in DOMAIN req[r].cache :
            req[r].cache[key] = getAvailableDates(FreshState, ContextOf(r), key[1], key[2])

\* C38: after a generate run has committed, the plan's stored hours per weekday,
\* session duration and essay flag are the ones the request carried
C38_SettingsStored ==
    \A r \in Reqs : Committed(r) =>
        /\ db.plans[req[r].planId].study_hours_per_day = req[r].hours
        /\ db.plans[req[r].planId].session_duration_minutes = req[r].dur
        /\ db.plans[req[r].planId].has_essay = req[r].has_essay

\* a topic deletion that committed and answered
TopicDeleted(r) ==
    /\ req[r].kind = "delete_topic" /\ req[r].pc = "done"
    /\ req[r].committed /\ req[r].resp = "200"

\* C39: after a topic deletion the store is the store as it was without the
\* topic and without the sessions that reference it: subjects, plans, the other
\* topics and the sessions of other topics are unchanged
C39_DeleteTopicFrame ==
    \A r \in Reqs : TopicDeleted(r) =>
        /\ db.topics = {x \in req[r].pre.topics : x.id # req[r].topicId}
        /\ db.sessions = {s \in req[r].pre.sessions : s.topic_id # req[r].topicId}
        /\ db.subjects = req[r].pre.subjects
        /\ db.plans = req[r].pre.plans

\* the seconds the server holds for a session (NULL counts as none)
StudiedSeconds(d, sessionId) ==
    LET s == CHOOSE x \in d.sessions : x.id = sessionId
    IN  IF s.time_studied_seconds = NULL THEN 0 ELSE s.time_studied_seconds

\* C40: once the posted times have been handled without a fault, the time the
\* server holds for a session is the time its timer was really running in the
\* runs that were reported (whether or not a run under the threshold that is
\* carried into a later report counts as reported): resuming and stopping
\* never adds an earlier run again.
C40_TimerTotalIsRunningTime ==
    \A s \in TimerSessions :
        (Quiet /\ faults = 0) =>
            1000 * StudiedSeconds(db, s) \in {ran[s].reported, ran[s].all}

====
